---- MODULE Spec2Model ----
(***************************************************************************)
(* DB2 SQL language support for the Monaco editor: the static analysis of  *)
(* src/languages/db2sql/db2sql.config.ts (validateDB2SQL, parseCTEs,       *)
(* stripCommentsAndStrings, getPositionFromOffset, getSQLContext).         *)
(*                                                                         *)
(* A document is a TLA+ string; offsets are 0-based as in the source       *)
(* (Ch(t, o) is t[o]); line and column numbers are 1-based.  Every regular *)
(* expression of the source is translated to an operator that gives the    *)
(* match anchored at one offset (with the backtracking the expression      *)
(* allows), and exec loops / match / test are built from those.            *)
(***************************************************************************)
EXTENDS Integers, Sequences, FiniteSets, TLC

\* text:         the value of the editor's model
\* cursor:       the offset of the cursor in text
\* typed:        the number of keys typed so far
\* schemaConfig: the schema the validator and the providers were created with
\* result:       what the operation last applied to the text returned
\* monaco:       what is registered with the monaco instance
\* calls:        the number of calls of registerDB2SQL so far
\* markers:      the markers of owner 'db2sql' set on the editor's model
\* validate:     the validator created when the editor was mounted, if any
\* validateTimeout: a validation is scheduled (the debounce timer is running)
VARIABLES text, cursor, typed, schemaConfig, result,
          monaco, calls, markers, validate, validateTimeout

vars == <<text, cursor, typed, schemaConfig, result,
          monaco, calls, markers, validate, validateTimeout>>

(***************************************************************************)
(* Characters and strings                                                  *)
(***************************************************************************)
UpperLetters ==
  {"A","B","C","D","E","F","G","H","I","J","K","L","M",
   "N","O","P","Q","R","S","T","U","V","W","X","Y","Z"}

LowerLetters ==
  {"a","b","c","d","e","f","g","h","i","j","k","l","m",
   "n","o","p","q","r","s","t","u","v","w","x","y","z"}

Digits == {"0","1","2","3","4","5","6","7","8","9"}

\* [A-Za-z_#@$]
IdStartChars == UpperLetters \cup LowerLetters \cup {"_", "#", "@", "$"}

\* [A-Za-z0-9_#@$]
IdChars == IdStartChars \cup Digits

\* \w
WordChars == UpperLetters \cup LowerLetters \cup Digits \cup {"_"}

\* \s (the white space a document of the model can hold)
WsChars == {" ", "\n", "\t"}

UpperOf ==
  [c \in LowerLetters |->
     CASE c = "a" -> "A" [] c = "b" -> "B" [] c = "c" -> "C" [] c = "d" -> "D"
       [] c = "e" -> "E" [] c = "f" -> "F" [] c = "g" -> "G" [] c = "h" -> "H"
       [] c = "i" -> "I" [] c = "j" -> "J" [] c = "k" -> "K" [] c = "l" -> "L"
       [] c = "m" -> "M" [] c = "n" -> "N" [] c = "o" -> "O" [] c = "p" -> "P"
       [] c = "q" -> "Q" [] c = "r" -> "R" [] c = "s" -> "S" [] c = "t" -> "T"
       [] c = "u" -> "U" [] c = "v" -> "V" [] c = "w" -> "W" [] c = "x" -> "X"
       [] c = "y" -> "Y" [] c = "z" -> "Z"]

UpperChar(c) == IF c \in LowerLetters THEN UpperOf[c] ELSE c

\* t[o]; "" (JavaScript's undefined) outside the string
Ch(t, o) == IF o < 0 \/ o >= Len(t) THEN "" ELSE SubSeq(t, o + 1, o + 1)

\* t.substring(a, b) for 0 <= a and 0 <= b (arguments are clamped and swapped)
Substring(t, a, b) ==
  LET a1 == IF a > Len(t) THEN Len(t) ELSE IF a < 0 THEN 0 ELSE a
      b1 == IF b > Len(t) THEN Len(t) ELSE IF b < 0 THEN 0 ELSE b
  IN  IF a1 <= b1 THEN SubSeq(t, a1 + 1, b1) ELSE SubSeq(t, b1 + 1, a1)

\* s.toUpperCase(), character by character (evaluated by halves)
RECURSIVE toUpperCase(_)
toUpperCase(s) ==
  IF Len(s) <= 1 THEN UpperChar(s)
  ELSE toUpperCase(SubSeq(s, 1, Len(s) \div 2))
       \o toUpperCase(SubSeq(s, Len(s) \div 2 + 1, Len(s)))

\* new Array(n + 1).join(' ')
RECURSIVE Spaces(_)
Spaces(n) ==
  IF n <= 0 THEN "" ELSE IF n = 1 THEN " "
  ELSE Spaces(n \div 2) \o Spaces(n - n \div 2)

\* the end of the run of white space that starts at o
RECURSIVE SkipWs(_, _)
SkipWs(t, o) == IF Ch(t, o) \in WsChars THEN SkipWs(t, o + 1) ELSE o

\* the end of the run of [A-Za-z0-9_#@$] that starts at o
RECURSIVE SkipId(_, _)
SkipId(t, o) == IF Ch(t, o) \in IdChars THEN SkipId(t, o + 1) ELSE o

\* the literal lit (upper case) at o, compared as the i flag compares
LitAtI(t, o, lit) ==
  /\ o >= 0
  /\ o + Len(lit) <= Len(t)
  /\ toUpperCase(SubSeq(t, o + 1, o + Len(lit))) = lit

\* the literal lit at o, compared exactly
LitAt(t, o, lit) ==
  /\ o >= 0
  /\ o + Len(lit) <= Len(t)
  /\ SubSeq(t, o + 1, o + Len(lit)) = lit

\* \b at offset o
WordBoundary(t, o) == (Ch(t, o - 1) \in WordChars) # (Ch(t, o) \in WordChars)

\* s.trim()
RECURSIVE TrimEnd(_)
TrimEnd(s) ==
  IF s # "" /\ SubSeq(s, Len(s), Len(s)) \in WsChars
  THEN TrimEnd(SubSeq(s, 1, Len(s) - 1)) ELSE s

Trim(s) == LET b == SkipWs(s, 0) IN TrimEnd(SubSeq(s, b + 1, Len(s)))

Min(S) == CHOOSE x \in S : \A y \in S : x <= y
Max(S) == CHOOSE x \in S : \A y \in S : x >= y

\* s.indexOf(lit, o); -1 when absent
IndexOf(s, lit, o) ==
  LET at == {i \in o..(Len(s) - Len(lit)) : LitAt(s, i, lit)}
  IN  IF at = {} THEN -1 ELSE Min(at)

\* s.lastIndexOf(lit); -1 when absent
LastIndexOf(s, lit) ==
  LET at == {i \in 0..(Len(s) - Len(lit)) : LitAt(s, i, lit)}
  IN  IF at = {} THEN -1 ELSE Max(at)

\* a.indexOf(x) >= 0 for an array a
Includes(a, x) == \E i \in DOMAIN a : a[i] = x

(***************************************************************************)
(* Regular expression matching.  A matcher gives the match anchored at one *)
(* offset, a record with the fields index (start), end (lastIndex after    *)
(* the match) and the captured groups, or NoMatch.                         *)
(***************************************************************************)
NoMatch == [index |-> -1, end |-> -1]

\* var x = v, in the code F that follows
Bind(v, F(_)) == F(v)

\* a.map(F) and a.filter(Keep) for an array a
Map(a, F(_)) == [i \in DOMAIN a |-> F(a[i])]
Filter(a, Keep(_)) == SelectSeq(a, Keep)

\* regex.exec in a while loop (the g flag): the matches in order, each search
\* starting where the previous match ended.  cands: the anchored matches.
RECURSIVE ExecAll(_, _)
ExecAll(cands, from) ==
  LET S == {m \in cands : m.index >= from}
  IN  IF S = {} THEN <<>>
      ELSE LET first == CHOOSE m \in S : \A n \in S : m.index <= n.index
           IN  <<first>> \o ExecAll(cands, first.end)

\* the anchored matches of a regular expression over the offsets of t
Cands(t, Rx(_, _)) ==
  {m \in {Rx(t, p) : p \in 0..(Len(t) - 1)} : m.index >= 0}

\* string.match / regex.test without the g flag: the leftmost match
FirstMatch(cands) ==
  IF cands = {} THEN NoMatch
  ELSE CHOOSE m \in cands : \A n \in cands : m.index <= n.index

(***************************************************************************)
(* getPositionFromOffset                                                   *)
(***************************************************************************)
\* lines 1164-1169: the body of the loop; pos holds the loop counter i, line
\* and column
PositionStep(t, pos) ==
  IF Ch(t, pos.i) = "\n"
  THEN [i |-> pos.i + 1, line |-> pos.line + 1, column |-> 1]
  ELSE [pos EXCEPT !.i = @ + 1, !.column = @ + 1]

\* line 1163: the loop, run from pos until the counter is hi (first to the
\* middle of what is left, then to hi)
RECURSIVE PositionScan(_, _, _)
PositionScan(t, hi, pos) ==
  IF pos.i >= hi THEN pos
  ELSE IF pos.i + 1 = hi THEN PositionStep(t, pos)
  ELSE PositionScan(t, hi, PositionScan(t, (pos.i + hi) \div 2, pos))

\* lines 1160-1172
getPositionFromOffset(t, offset) ==
  LET pos == PositionScan(t, IF offset < Len(t) THEN offset ELSE Len(t),
                          [i |-> 0, line |-> 1, column |-> 1])
  IN  [line |-> pos.line, column |-> pos.column]

Diagnostic(sl, sc, el, ec, msg, sev) ==
  [startLineNumber |-> sl, startColumn |-> sc, endLineNumber |-> el,
   endColumn |-> ec, message |-> msg, severity |-> sev]

\* a diagnostic on one line, len columns wide, that starts at position p
DiagnosticFrom(p, len, msg, sev) ==
  Diagnostic(p.line, p.column, p.line, p.column + len, msg, sev)

\* a diagnostic on one line, len columns wide, at an offset of the text
DiagnosticAt(t, offset, len, msg, sev) ==
  DiagnosticFrom(getPositionFromOffset(t, offset), len, msg, sev)

(***************************************************************************)
(* stripCommentsAndStrings: three replace passes, each over the result of  *)
(* the pass before                                                         *)
(***************************************************************************)
\* m.replace(/[^\n]/g, ' ')
RECURSIVE BlankKeepNewlines(_)
BlankKeepNewlines(m) ==
  IF Len(m) <= 1 THEN (IF m = "\n" \/ m = "" THEN m ELSE " ")
  ELSE BlankKeepNewlines(SubSeq(m, 1, Len(m) \div 2))
       \o BlankKeepNewlines(SubSeq(m, Len(m) \div 2 + 1, Len(m)))

\* new Array(m.length).join(' '): one space short
BlankMatchShort(m) == Spaces(Len(m) - 1)

\* new Array(m.length + 1).join(' ')
BlankMatch(m) == Spaces(Len(m))

\* /--[^\n]*/g anchored at p
lineCommentRegex(s, p) ==
  IF ~LitAt(s, p, "--") THEN NoMatch
  ELSE [index |-> p,
        end |-> IF IndexOf(s, "\n", p) < 0 THEN Len(s) ELSE IndexOf(s, "\n", p)]

\* /\/\*[\s\S]*?\*\//g anchored at p
blockCommentRegex(s, p) ==
  IF LitAt(s, p, "/*") /\ IndexOf(s, "*/", p + 2) >= 0
  THEN [index |-> p, end |-> IndexOf(s, "*/", p + 2) + 2] ELSE NoMatch

\* /'[^']*'/g anchored at p
stringLiteralRegex(s, p) ==
  IF Ch(s, p) = "'" /\ IndexOf(s, "'", p + 1) >= 0
  THEN [index |-> p, end |-> IndexOf(s, "'", p + 1) + 1] ELSE NoMatch

\* s.replace(regex, callback): the text between the matches ms[i..] from
\* offset o on is kept, every match is replaced by what the callback returns
\* for it (blank: all of it by spaces; otherwise all but its newlines)
RECURSIVE ReplaceMatches(_, _, _, _, _)
ReplaceMatches(s, ms, i, o, blank) ==
  IF i > Len(ms) THEN Substring(s, o, Len(s))
  ELSE Substring(s, o, ms[i].index)
       \o (IF blank THEN BlankMatch(Substring(s, ms[i].index, ms[i].end))
           ELSE BlankKeepNewlines(Substring(s, ms[i].index, ms[i].end)))
       \o ReplaceMatches(s, ms, i + 1, ms[i].end, blank)

\* lines 128-130 (and 300-302)
StripLineComments(expr) ==
  ReplaceMatches(expr, ExecAll(Cands(expr, lineCommentRegex), 0), 1, 0, TRUE)

\* lines 132-134 (and 304-306)
StripBlockComments(expr) ==
  ReplaceMatches(expr, ExecAll(Cands(expr, blockCommentRegex), 0), 1, 0, FALSE)

\* lines 136-138
StripStringLiterals(expr) ==
  ReplaceMatches(expr, ExecAll(Cands(expr, stringLiteralRegex), 0), 1, 0, TRUE)

\* lines 126-140
stripCommentsAndStrings(expr) ==
  StripStringLiterals(StripBlockComments(StripLineComments(expr)))

(***************************************************************************)
(* validateDB2SQL, structural checks                                       *)
(***************************************************************************)
\* line 153 without the test of the character before: every quote toggles
QuoteTogglesEvery(t, o, col) == Ch(t, o) = "'"

\* line 153: the quote at column col of its line (offset o) toggles the state
QuoteToggles(t, o, col) == Ch(t, o) = "'" /\ (col = 0 \/ Ch(t, o - 1) # "'")

\* lines 149-162: one character of the scan; o is the offset of the character,
\* lineNum and col are the loop counters, a newline starts the next line
UnclosedStringStep(t, st) ==
  IF Ch(t, st.o) = "\n" THEN [st EXCEPT !.o = @ + 1, !.lineNum = @ + 1, !.col = 0]
  ELSE IF QuoteToggles(t, st.o, st.col)
  THEN IF ~st.inString
       THEN [st EXCEPT !.inString = TRUE, !.stringStartLine = st.lineNum,
                       !.stringStartCol = st.col, !.o = @ + 1, !.col = @ + 1]
       ELSE [st EXCEPT !.inString = FALSE, !.o = @ + 1, !.col = @ + 1]
  ELSE [st EXCEPT !.o = @ + 1, !.col = @ + 1]

\* lines 146-163: the scan over the lines of the text, run from st until the
\* offset is hi (first to the middle of what is left, then to hi)
RECURSIVE UnclosedStringScan(_, _, _)
UnclosedStringScan(t, hi, st) ==
  IF st.o >= hi THEN st
  ELSE IF st.o + 1 = hi THEN UnclosedStringStep(t, st)
  ELSE UnclosedStringScan(t, hi, UnclosedStringScan(t, (st.o + hi) \div 2, st))

UnclosedStringState(t) ==
  UnclosedStringScan(t, Len(t),
    [inString |-> FALSE, stringStartLine |-> 0, stringStartCol |-> 0,
     o |-> 0, lineNum |-> 0, col |-> 0])

\* lines 145-173
checkUnclosedStrings(t) ==
  LET Report(st) ==
        IF st.inString
        THEN <<Diagnostic(st.stringStartLine + 1, st.stringStartCol + 1,
                          st.stringStartLine + 1, st.stringStartCol + 2,
                          "Unclosed string literal", "error")>>
        ELSE <<>>
  IN  Report(UnclosedStringState(t))

\* an alternative made of literals separated by \s+ (GROUP\s+BY), matched at q
\* from its i-th literal on: the offset after it, or -1
RECURSIVE KwSeqEnd(_, _, _, _)
KwSeqEnd(t, q, words, i) ==
  IF ~LitAtI(t, q, words[i]) THEN -1
  ELSE LET e == q + Len(words[i])
       IN  IF i = Len(words) THEN e
           ELSE LET w == SkipWs(t, e)
                IN  IF w = e THEN -1 ELSE KwSeqEnd(t, w, words, i + 1)

\* (a|b|...) at q: the offset after the first alternative that matches, or -1
FirstAltEnd(t, q, alts) ==
  LET First(ends, ok) == IF ok = {} THEN -1 ELSE ends[Min(ok)]
      Among(ends) == First(ends, {i \in DOMAIN alts : ends[i] >= 0})
  IN  Among([i \in DOMAIN alts |-> KwSeqEnd(t, q, alts[i], 1)])

\* line 177 without the alternatives ; and \)
TrailingCommaWordsOnly ==
  << <<"FROM">>, <<"WHERE">>, <<"GROUP", "BY">>, <<"ORDER", "BY">>, <<"HAVING">>,
     <<"UNION">>, <<"EXCEPT">>, <<"INTERSECT">>, <<"FETCH">>, <<"LIMIT">>,
     <<"FOR">> >>

\* line 177: (FROM|WHERE|GROUP\s+BY|ORDER\s+BY|HAVING|UNION|EXCEPT|INTERSECT|FETCH|LIMIT|FOR|;|\))
TrailingCommaKeywords ==
  << <<"FROM">>, <<"WHERE">>, <<"GROUP", "BY">>, <<"ORDER", "BY">>, <<"HAVING">>,
     <<"UNION">>, <<"EXCEPT">>, <<"INTERSECT">>, <<"FETCH">>, <<"LIMIT">>,
     <<"FOR">>, <<";">>, <<")">> >>

\* line 177: /,\s*\n?\s*(...)/gi anchored at p
trailingCommaRegex(t, p) ==
  LET Found(q, e) ==
        IF e < 0 THEN NoMatch ELSE [index |-> p, end |-> e, g1 |-> Substring(t, q, e)]
      After(q) == Found(q, FirstAltEnd(t, q, TrailingCommaKeywords))
  IN  IF Ch(t, p) # "," THEN NoMatch ELSE After(SkipWs(t, p + 1))

\* lines 175-189
checkTrailingComma(t) ==
  Map(ExecAll(Cands(t, trailingCommaRegex), 0),
      LAMBDA commaMatch :
        DiagnosticAt(t, commaMatch.index, 1,
          "Unexpected comma before " \o toUpperCase(Trim(commaMatch.g1)), "error"))

\* (?:\/\*[\s\S]*?\*\/|--[^\n]*\n|\s): the offsets one repetition can reach from r
CteSkipStep(t, r) ==
  (IF Ch(t, r) \in WsChars THEN {r + 1} ELSE {})
  \cup (IF LitAt(t, r, "--") /\ IndexOf(t, "\n", r) >= 0
        THEN {IndexOf(t, "\n", r) + 1} ELSE {})
  \cup (IF LitAt(t, r, "/*")
        THEN {e + 2 : e \in {x \in (r + 2)..(Len(t) - 2) : LitAt(t, x, "*/")}}
        ELSE {})

\* (?:...)*: every offset the repetition can reach
RECURSIVE CteSkipReach(_, _, _)
CteSkipReach(t, todo, seen) ==
  IF todo = {} THEN seen
  ELSE LET r   == CHOOSE x \in todo : TRUE
           new == CteSkipStep(t, r) \ seen
       IN  CteSkipReach(t, (todo \ {r}) \cup new, seen \cup new)

\* ([A-Za-z_#@$][A-Za-z0-9_#@$]*)\s+AS\s*\( anchored at r
CteHead(t, r) ==
  LET Found(e1, w2) ==
        IF Ch(t, w2) = "("
        THEN [index |-> r, end |-> w2 + 1, g1 |-> Substring(t, r, e1)] ELSE NoMatch
      AfterWs(e1, w) ==
        IF w > e1 /\ LitAtI(t, w, "AS") THEN Found(e1, SkipWs(t, w + 2)) ELSE NoMatch
      AfterName(e1) == AfterWs(e1, SkipWs(t, e1))
  IN  IF Ch(t, r) \notin IdStartChars THEN NoMatch ELSE AfterName(SkipId(t, r))

\* the name and the open parenthesis after the skipped comments and white space
CteAfterSkip(t, p, start) ==
  Bind({r \in CteSkipReach(t, {start}, {start}) : CteHead(t, r).index >= 0},
    LAMBDA good :
      IF good = {} THEN NoMatch
      ELSE Bind(CteHead(t, Min(good)),
             LAMBDA h : [index |-> p, end |-> h.end, g1 |-> h.g1]))

\* line 193: /WITH\s+(?:...)*(name)\s+AS\s*\(/gi anchored at p
cteRegex(t, p) ==
  IF LitAtI(t, p, "WITH") /\ Ch(t, p + 4) \in WsChars
  THEN CteAfterSkip(t, p, p + 5) ELSE NoMatch

\* line 201: /\)\s*,\s*(?:...)*(name)\s+AS\s*\(/gi anchored at p
subsequentCteRegex(t, p) ==
  IF Ch(t, p) = ")" /\ Ch(t, SkipWs(t, p + 1)) = ","
  THEN CteAfterSkip(t, p, SkipWs(t, p + 1) + 1) ELSE NoMatch

\* lines 191-204
cteNames(t) ==
  Map(ExecAll(Cands(t, cteRegex), 0), LAMBDA cteMatch : toUpperCase(cteMatch.g1))
  \o Map(ExecAll(Cands(t, subsequentCteRegex), 0),
         LAMBDA cteMatch : toUpperCase(cteMatch.g1))

\* lines 218-242 with line 237 left out: the depth stays negative after an
\* unexpected closing parenthesis
ParenStepNoReset(s, c, lineNum, col) ==
  IF c = "'" /\ ~s.inStr THEN [s EXCEPT !.inStr = TRUE]
  ELSE IF c = "'" /\ s.inStr THEN [s EXCEPT !.inStr = FALSE]
  ELSE IF ~s.inStr
  THEN IF c = "("
       THEN [s EXCEPT !.parenDepth = @ + 1,
                      !.parenStack = Append(@, [line |-> lineNum, col |-> col])]
       ELSE IF c = ")"
       THEN IF s.parenDepth - 1 < 0
            THEN [s EXCEPT !.parenDepth = @ - 1,
                           !.diags = Append(@,
                              Diagnostic(lineNum + 1, col + 1, lineNum + 1, col + 2,
                                         "Unexpected closing parenthesis", "error"))]
            ELSE [s EXCEPT !.parenDepth = @ - 1,
                           !.parenStack = SubSeq(@, 1, Len(@) - 1)]
       ELSE s
  ELSE s

\* lines 218-242: one character of the parenthesis scan
ParenStep(s, c, lineNum, col) ==
  IF c = "'" /\ ~s.inStr THEN [s EXCEPT !.inStr = TRUE]
  ELSE IF c = "'" /\ s.inStr THEN [s EXCEPT !.inStr = FALSE]
  ELSE IF ~s.inStr
  THEN IF c = "("
       THEN [s EXCEPT !.parenDepth = @ + 1,
                      !.parenStack = Append(@, [line |-> lineNum, col |-> col])]
       ELSE IF c = ")"
       THEN IF s.parenDepth - 1 < 0
            THEN [s EXCEPT !.parenDepth = 0,
                           !.diags = Append(@,
                              Diagnostic(lineNum + 1, col + 1, lineNum + 1, col + 2,
                                         "Unexpected closing parenthesis", "error"))]
            ELSE [s EXCEPT !.parenDepth = @ - 1,
                           !.parenStack = SubSeq(@, 1, Len(@) - 1)]
       ELSE s
  ELSE s

\* lines 214-243: one character of a line, or the step to the next line; o
\* is the offset of the character, lineNum and col are the loop counters,
\* inStr starts FALSE on every line
ParenScanStep(t, s) ==
  IF Ch(t, s.o) = "\n"
  THEN [s EXCEPT !.inStr = FALSE, !.o = @ + 1, !.lineNum = @ + 1, !.col = 0]
  ELSE [ParenStep(s, Ch(t, s.o), s.lineNum, s.col) EXCEPT !.o = @ + 1, !.col = @ + 1]

\* lines 213-244: the scan over the lines of the text, run from s until the
\* offset is hi (first to the middle of what is left, then to hi)
RECURSIVE ParenScan(_, _, _)
ParenScan(t, hi, s) ==
  IF s.o >= hi THEN s
  ELSE IF s.o + 1 = hi THEN ParenScanStep(t, s)
  ELSE ParenScan(t, hi, ParenScan(t, (s.o + hi) \div 2, s))

ParenState(t) ==
  ParenScan(t, Len(t),
    [parenDepth |-> 0, parenStack |-> <<>>, inStr |-> FALSE, diags |-> <<>>,
     o |-> 0, lineNum |-> 0, col |-> 0])

\* lines 210-256
checkParentheses(t) ==
  LET Report(s) ==
        s.diags \o
        Map(s.parenStack,
            LAMBDA unclosed :
              Diagnostic(unclosed.line + 1, unclosed.col + 1,
                         unclosed.line + 1, unclosed.col + 2,
                         "Unclosed parenthesis", "error"))
  IN  Report(ParenState(t))

\* line 259: /SELECT\s+(FROM|WHERE)/gi anchored at p
emptySelectRegex(t, p) ==
  LET Found(e) == IF e >= 0 THEN [index |-> p, end |-> e] ELSE NoMatch
      AfterWs(w) ==
        IF w > p + 6 THEN Found(FirstAltEnd(t, w, << <<"FROM">>, <<"WHERE">> >>))
        ELSE NoMatch
  IN  IF ~LitAtI(t, p, "SELECT") THEN NoMatch ELSE AfterWs(SkipWs(t, p + 6))

\* lines 258-271
checkEmptySelect(t) ==
  Map(ExecAll(Cands(t, emptySelectRegex), 0),
      LAMBDA m :
        DiagnosticAt(t, m.index, 6,
          "SELECT requires at least one column or expression", "error"))

\* line 274: /,\s*,/g anchored at p
doubleCommaRegex(t, p) ==
  LET AfterWs(w) == IF Ch(t, w) = "," THEN [index |-> p, end |-> w + 1] ELSE NoMatch
  IN  IF Ch(t, p) = "," THEN AfterWs(SkipWs(t, p + 1)) ELSE NoMatch

\* lines 273-286
checkDuplicateCommas(t) ==
  Map(ExecAll(Cands(t, doubleCommaRegex), 0),
      LAMBDA m : DiagnosticAt(t, m.index, m.end - m.index, "Duplicate comma", "error"))

\* (?=\s+FROM\b) at offset e
FromAhead(t, e) ==
  LET At(w) == LitAtI(t, w, "FROM") /\ Ch(t, w + 4) \notin WordChars
  IN  Ch(t, e) \in WsChars /\ At(SkipWs(t, e))

\* (?=\s+FROM\s+) at offset e
FromSpaceAhead(t, e) ==
  LET At(w) == LitAtI(t, w, "FROM") /\ Ch(t, w + 4) \in WsChars
  IN  Ch(t, e) \in WsChars /\ At(SkipWs(t, e))

\* SELECT\s+([\s\S]*?)(?=...) anchored at p: \s+ takes the whole run of white
\* space and the lazy group stops at the first offset where the lookahead
\* holds; when there is none, \s+ gives back its last character and the group
\* is empty in front of it.  g1Start is the offset of the group.
SelectUpToFrom(t, p, Ahead(_, _)) ==
  LET Found(wsEnd, stops) ==
        IF stops # {}
        THEN [index |-> p, end |-> Min(stops), g1Start |-> wsEnd,
              g1 |-> Substring(t, wsEnd, Min(stops))]
        ELSE IF wsEnd - 1 >= p + 7 /\ Ahead(t, wsEnd - 1)
        THEN [index |-> p, end |-> wsEnd - 1, g1Start |-> wsEnd - 1, g1 |-> ""]
        ELSE NoMatch
      AfterWs(wsEnd) ==
        IF wsEnd = p + 6 THEN NoMatch
        ELSE Found(wsEnd, {e \in wsEnd..Len(t) : Ahead(t, e)})
  IN  IF ~LitAtI(t, p, "SELECT") THEN NoMatch ELSE AfterWs(SkipWs(t, p + 6))

\* line 291: /\bSELECT\s+([\s\S]*?)(?=\s+FROM\b)/gi anchored at p
selectClauseRegex(t, p) ==
  IF Ch(t, p - 1) \in WordChars THEN NoMatch ELSE SelectUpToFrom(t, p, FromAhead)

\* line 310: /(?<![idchar])(ident)\s*\n\s*(ident)(?![idchar])/g anchored at p
missingCommaPattern(s, p) ==
  LET Found(e1, w) ==
        IF (\E k \in e1..(w - 1) : Ch(s, k) = "\n") /\ Ch(s, w) \in IdStartChars
        THEN [index |-> p, end |-> SkipId(s, w), g1 |-> Substring(s, p, e1),
              g2 |-> Substring(s, w, SkipId(s, w))]
        ELSE NoMatch
      AfterName(e1) == Found(e1, SkipWs(s, e1))
  IN  IF Ch(s, p) \notin IdStartChars \/ Ch(s, p - 1) \in IdChars THEN NoMatch
      ELSE AfterName(SkipId(s, p))

\* line 312
sqlKeywordsUpper ==
  <<"SELECT", "FROM", "WHERE", "AND", "OR", "AS", "ON", "JOIN", "LEFT", "RIGHT",
    "INNER", "OUTER", "FULL", "CROSS", "GROUP", "BY", "ORDER", "HAVING", "UNION",
    "EXCEPT", "INTERSECT", "CASE", "WHEN", "THEN", "ELSE", "END", "NULL", "NOT",
    "IN", "BETWEEN", "LIKE", "EXISTS", "IS", "ASC", "DESC", "DISTINCT", "ALL">>

\* lines 294-337: the findings of one SELECT clause
missingCommasOfClause(t, clause) ==
  Map(Filter(ExecAll(Cands(StripBlockComments(StripLineComments(clause.g1)),
                           missingCommaPattern), 0),
             LAMBDA m : /\ toUpperCase(m.g1) # "AS"
                        /\ ~Includes(sqlKeywordsUpper, toUpperCase(m.g2))
                        /\ ~Includes(sqlKeywordsUpper, toUpperCase(m.g1))),
      LAMBDA m :
        DiagnosticAt(t, clause.g1Start + m.index + Len(m.g1), 1,
          "Missing comma between \"" \o m.g1 \o "\" and \"" \o m.g2 \o "\"", "error"))

\* the concatenation of a sequence of sequences
RECURSIVE Flatten(_)
Flatten(ss) == IF ss = <<>> THEN <<>> ELSE Head(ss) \o Flatten(Tail(ss))

\* lines 288-338
checkMissingCommas(t) ==
  Flatten(Map(ExecAll(Cands(t, selectClauseRegex), 0),
              LAMBDA clause : missingCommasOfClause(t, clause)))

\* line 341: (\n|,|FROM|WHERE|AND|OR|ORDER|GROUP|HAVING|UNION|EXCEPT|INTERSECT|;|\))
\* without \n, which cannot follow the whole run of white space
IncompleteDotFollowers ==
  << <<",">>, <<"FROM">>, <<"WHERE">>, <<"AND">>, <<"OR">>, <<"ORDER">>,
     <<"GROUP">>, <<"HAVING">>, <<"UNION">>, <<"EXCEPT">>, <<"INTERSECT">>,
     <<";">>, <<")">> >>

\* line 341: /([idchar]+)\.\s*(...)/gi anchored at p.  \s* first takes the whole
\* run; when nothing of the group follows it, it gives characters back until
\* the character it gave back last is a newline
incompleteDotRegex(t, p) ==
  LET Found(e1, e, nls) ==
        IF e >= 0 THEN [index |-> p, end |-> e, g1 |-> Substring(t, p, e1)]
        ELSE IF nls # {}
        THEN [index |-> p, end |-> Max(nls) + 1, g1 |-> Substring(t, p, e1)]
        ELSE NoMatch
      AfterWs(e1, w) ==
        Found(e1, FirstAltEnd(t, w, IncompleteDotFollowers),
              {k \in (e1 + 1)..(w - 1) : Ch(t, k) = "\n"})
      AfterName(e1) ==
        IF Ch(t, e1) # "." THEN NoMatch ELSE AfterWs(e1, SkipWs(t, e1 + 1))
  IN  IF Ch(t, p) \notin IdChars THEN NoMatch ELSE AfterName(SkipId(t, p))

\* lines 340-353
checkIncompleteDot(t) ==
  Map(ExecAll(Cands(t, incompleteDotRegex), 0),
      LAMBDA m :
        DiagnosticAt(t, m.index + Len(m.g1), 1,
          "Incomplete reference: expected column name after \"" \o m.g1 \o ".\"",
          "error"))

\* lines 142-353: the findings that need no schema, in the order of the source
structuralDiagnostics(t) ==
  checkUnclosedStrings(t) \o checkTrailingComma(t) \o checkParentheses(t)
  \o checkEmptySelect(t) \o checkDuplicateCommas(t) \o checkMissingCommas(t)
  \o checkIncompleteDot(t)

(***************************************************************************)
(* parseCTEs                                                               *)
(***************************************************************************)
\* line 1032: /\bWITH\s+/i anchored at p
withRegex(t, p) ==
  IF LitAtI(t, p, "WITH") /\ Ch(t, p - 1) \notin WordChars /\ Ch(t, p + 4) \in WsChars
  THEN [index |-> p, end |-> SkipWs(t, p + 4)] ELSE NoMatch

\* line 1037: /([A-Za-z_#@$][A-Za-z0-9_#@$]*)\s+AS\s*\(/gi anchored at p
ctePattern(t, p) == CteHead(t, p)

\* lines 1051-1060: the body of the walk to the closing parenthesis
ParenWalkStep(t, w) ==
  LET Step(char) ==
        IF char = "'" /\ ~w.inString THEN [w EXCEPT !.inString = TRUE, !.pos = @ + 1]
        ELSE IF char = "'" /\ w.inString THEN [w EXCEPT !.inString = FALSE, !.pos = @ + 1]
        ELSE IF ~w.inString /\ char = "(" THEN [w EXCEPT !.depth = @ + 1, !.pos = @ + 1]
        ELSE IF ~w.inString /\ char = ")" THEN [w EXCEPT !.depth = @ - 1, !.pos = @ + 1]
        ELSE [w EXCEPT !.pos = @ + 1]
  IN  Step(Ch(t, w.pos))

\* line 1050: while (pos < hi && depth > 0), run from w (first to the middle
\* of what is left, then to hi)
RECURSIVE ParenWalk(_, _, _)
ParenWalk(t, hi, w) ==
  IF w.pos >= hi \/ w.depth <= 0 THEN w
  ELSE IF w.pos + 1 = hi THEN ParenWalkStep(t, w)
  ELSE ParenWalk(t, hi, ParenWalk(t, (w.pos + hi) \div 2, w))

\* line 1070: /SELECT\s+([\s\S]*?)(?=\s+FROM\s+)/i anchored at p
selectFromRegex(t, p) == SelectUpToFrom(t, p, FromSpaceAhead)

\* lines 1080-1094: one character of the split of the SELECT clause; i is the
\* loop counter, exprStart the offset (in the clause) where currentExpr began
SplitStep(clause, st) ==
  LET Pushed(trimmed) ==
        IF st.keepEmpty \/ trimmed # ""
        THEN Append(st.columnExprs, [expr |-> trimmed, untrimmed |-> st.currentExpr,
                                     start |-> st.exprStart])
        ELSE st.columnExprs
      Step(c) ==
        IF c = "'" /\ ~st.inStr
        THEN [st EXCEPT !.inStr = TRUE, !.currentExpr = @ \o c, !.i = @ + 1]
        ELSE IF c = "'" /\ st.inStr
        THEN [st EXCEPT !.inStr = FALSE, !.currentExpr = @ \o c, !.i = @ + 1]
        ELSE IF ~st.inStr /\ c = "("
        THEN [st EXCEPT !.parenDepth = @ + 1, !.currentExpr = @ \o c, !.i = @ + 1]
        ELSE IF ~st.inStr /\ c = ")"
        THEN [st EXCEPT !.parenDepth = @ - 1, !.currentExpr = @ \o c, !.i = @ + 1]
        ELSE IF ~st.inStr /\ c = "," /\ st.parenDepth = 0
        THEN [st EXCEPT !.columnExprs = Pushed(Trim(st.currentExpr)),
                        !.currentExpr = "", !.exprStart = st.i + 1, !.i = @ + 1]
        ELSE [st EXCEPT !.currentExpr = @ \o c, !.i = @ + 1]
  IN  Step(Ch(clause, st.i))

\* line 1080: the loop, run from st until the counter is hi (first to the
\* middle of what is left, then to hi)
RECURSIVE SplitScan(_, _, _)
SplitScan(clause, hi, st) ==
  IF st.i >= hi THEN st
  ELSE IF st.i + 1 = hi THEN SplitStep(clause, st)
  ELSE SplitScan(clause, hi, SplitScan(clause, (st.i + hi) \div 2, st))

\* lines 1075-1097, 574-598 and 822-849: the expressions of the clause, each
\* with its untrimmed text and the offset in the clause where it starts.  At a
\* comma, lines 1088 and 588 push the expression whatever it is (keepEmpty),
\* line 837 pushes it unless it is blank
SplitColumns(clause, keepEmpty) ==
  LET Last(st, trimmed) ==
        IF trimmed # ""
        THEN Append(st.columnExprs, [expr |-> trimmed, untrimmed |-> st.currentExpr,
                                     start |-> st.exprStart])
        ELSE st.columnExprs
      Done(st) == Last(st, Trim(st.currentExpr))
  IN  Done(SplitScan(clause, Len(clause),
             [i |-> 0, currentExpr |-> "", exprStart |-> 0, parenDepth |-> 0,
              inStr |-> FALSE, columnExprs |-> <<>>, keepEmpty |-> keepEmpty]))

\* line 1102: expr.replace(/^\s*(DISTINCT|ALL)\s+/i, '')
StripDistinct(expr) ==
  LET Cut(e, w) == IF e >= 0 /\ w > e THEN Substring(expr, w, Len(expr)) ELSE expr
      After(e) == Cut(e, SkipWs(expr, e))
  IN  After(FirstAltEnd(expr, SkipWs(expr, 0), << <<"DISTINCT">>, <<"ALL">> >>))

\* \s+AS\s+([A-Za-z_#@$][A-Za-z0-9_#@$]*) at offset e: the offsets of the
\* identifier, or NoMatch
AsAliasAt(x, e) ==
  LET Name(w2) ==
        IF Ch(x, w2) \in IdStartChars THEN [index |-> w2, end |-> SkipId(x, w2)]
        ELSE NoMatch
      AfterAs(w, w2) == IF w2 > w + 2 THEN Name(w2) ELSE NoMatch
      AfterWs(w) ==
        IF w > e /\ LitAtI(x, w, "AS") THEN AfterAs(w, SkipWs(x, w + 2)) ELSE NoMatch
  IN  AfterWs(SkipWs(x, e))

\* /^([\s\S]+?)\s+AS\s+(ident)$/i, with \s* before $ when trailing is TRUE
AsAliasRegex(x, trailing) ==
  LET Ends(a) == a.index >= 0 /\ (IF trailing THEN SkipWs(x, a.end) ELSE a.end) = Len(x)
      Found(e, a) ==
        [index |-> 0, end |-> Len(x), g1 |-> Substring(x, 0, e),
         g2 |-> Substring(x, a.index, a.end)]
      First(ends) ==
        IF ends = {} THEN NoMatch ELSE Found(Min(ends), AsAliasAt(x, Min(ends)))
  IN  First({e \in 1..Len(x) : Ends(AsAliasAt(x, e))})

\* lines 1106 and 605: /^([\s\S]+?)\s+AS\s+(ident)\s*$/i
asRegex(x) == AsAliasRegex(x, TRUE)

\* line 1114: /^(ident)\.(ident)$/
simpleRegex(x) ==
  LET Found(e1) ==
        IF Ch(x, 0) \in IdStartChars /\ Ch(x, e1) = "." /\ Ch(x, e1 + 1) \in IdStartChars
           /\ SkipId(x, e1 + 1) = Len(x)
        THEN [index |-> 0, end |-> Len(x), g1 |-> Substring(x, 0, e1),
              g2 |-> Substring(x, e1 + 1, Len(x))]
        ELSE NoMatch
  IN  Found(SkipId(x, 0))

\* line 1123: /^(ident)$/
colRegex(x) ==
  IF Ch(x, 0) \in IdStartChars /\ SkipId(x, 0) = Len(x)
  THEN [index |-> 0, end |-> Len(x), g1 |-> x] ELSE NoMatch

\* lines 1100-1132: the columns one expression contributes (none or one)
ParseColumn(expr) ==
  Bind(Trim(StripDistinct(expr)), LAMBDA cleanExpr :
    IF cleanExpr = "" \/ cleanExpr = "*" THEN <<>>
    ELSE Bind(asRegex(cleanExpr), LAMBDA asMatch :
      IF asMatch.index >= 0
      THEN <<[name |-> toUpperCase(asMatch.g2), expression |-> Trim(asMatch.g1)]>>
      ELSE Bind(simpleRegex(cleanExpr), LAMBDA simpleMatch :
        IF simpleMatch.index >= 0
        THEN <<[name |-> toUpperCase(simpleMatch.g2),
                sourceTable |-> toUpperCase(simpleMatch.g1),
                sourceColumn |-> toUpperCase(simpleMatch.g2)]>>
        ELSE Bind(colRegex(cleanExpr), LAMBDA colMatch :
          IF colMatch.index >= 0
          THEN <<[name |-> toUpperCase(colMatch.g1),
                  sourceColumn |-> toUpperCase(colMatch.g1)]>>
          ELSE <<>>))))

\* lines 369 and 1137: /(?:FROM|JOIN)\s+([idchar]+(?:\.[idchar]+)?)/gi anchored
\* at p; g1Start is the offset of the name
tableRefRegex(t, p) ==
  LET Found(w, e) ==
        [index |-> p, end |-> e, g1Start |-> w, g1 |-> Substring(t, w, e)]
      AfterName(w, e1) ==
        IF e1 > w
        THEN Found(w, IF Ch(t, e1) = "." /\ Ch(t, e1 + 1) \in IdChars
                      THEN SkipId(t, e1 + 1) ELSE e1)
        ELSE NoMatch
      AfterWs(w) == IF w > p + 4 THEN AfterName(w, SkipId(t, w)) ELSE NoMatch
  IN  IF ~(LitAtI(t, p, "FROM") \/ LitAtI(t, p, "JOIN")) THEN NoMatch
      ELSE AfterWs(SkipWs(t, p + 4))

\* lines 1136-1141
fromTablesOf(cteBody) ==
  Map(ExecAll(Cands(cteBody, tableRefRegex), 0),
      LAMBDA fromMatch : toUpperCase(fromMatch.g1))

\* lines 1067-1133
columnsOf(cteBody) ==
  Bind(FirstMatch(Cands(cteBody, selectFromRegex)), LAMBDA selectMatch :
    IF selectMatch.index < 0 THEN <<>>
    ELSE Flatten(Map(SplitColumns(selectMatch.g1, TRUE),
                     LAMBDA columnExpr : ParseColumn(columnExpr.expr))))

\* lines 1041-1151: the entry of one match of ctePattern
ParsedCTE(t, match) ==
  Bind(match.end - 1, LAMBDA openParenPos :
    Bind(ParenWalk(t, Len(t), [pos |-> openParenPos + 1, depth |-> 1,
                               inString |-> FALSE]).pos,
      LAMBDA pos :
        Bind(Substring(t, openParenPos + 1, pos - 1), LAMBDA cteBody :
          [name |-> toUpperCase(match.g1),
           columns |-> columnsOf(cteBody),
           startOffset |-> match.index,
           endOffset |-> pos,
           bodyStartOffset |-> openParenPos + 1,
           bodyEndOffset |-> pos - 1,
           fromTables |-> fromTablesOf(cteBody)])))

\* lines 1028-1155
parseCTEs(t) ==
  IF Cands(t, withRegex) = {} THEN <<>>
  ELSE Map(ExecAll(Cands(t, ctePattern), 0), LAMBDA match : ParsedCTE(t, match))

(***************************************************************************)
(* validateDB2SQL, checks against the schema                               *)
(***************************************************************************)
\* an optional string property: "" (falsy, as undefined is) when absent
SchemaOf(tbl) == IF "schema" \in DOMAIN tbl THEN tbl.schema ELSE ""

\* tbl.columns is present
HasColumns(tbl) == "columns" \in DOMAIN tbl

\* lines 1186-1197: the tables of one schema, each with the schema's name
\* unless it carries its own
SchemaTables(schema) ==
  [k \in DOMAIN schema.tables |->
     LET tbl == schema.tables[k]
         own == IF SchemaOf(tbl) # "" THEN SchemaOf(tbl) ELSE schema.name
     IN  [f \in DOMAIN tbl \cup {"schema"} |-> IF f = "schema" THEN own ELSE tbl[f]]]

\* lines 1177-1202
getAllTablesForValidation(config) ==
  (IF "tables" \in DOMAIN config THEN config.tables ELSE <<>>)
  \o (IF "schemas" \in DOMAIN config
      THEN Flatten([j \in DOMAIN config.schemas |-> SchemaTables(config.schemas[j])])
      ELSE <<>>)

\* a.join(sep) for an array of strings
RECURSIVE Join(_, _)
Join(a, sep) ==
  IF Len(a) = 0 THEN "" ELSE IF Len(a) = 1 THEN a[1]
  ELSE a[1] \o sep \o Join(Tail(a), sep)

\* name.indexOf('.') >= 0 ? name.split('.')[1] : name
ShortName(name) ==
  LET Second(rest, dot) == IF dot < 0 THEN rest ELSE Substring(rest, 0, dot)
      AfterDot(rest) == Second(rest, IndexOf(rest, ".", 0))
      Split(dot) == IF dot < 0 THEN name ELSE AfterDot(Substring(name, dot + 1, Len(name)))
  IN  Split(IndexOf(name, ".", 0))

\* t.schema ? (t.schema + '.' + t.name).toUpperCase() : t.name.toUpperCase()
FullName(tbl) ==
  toUpperCase(IF SchemaOf(tbl) # "" THEN SchemaOf(tbl) \o "." \o tbl.name ELSE tbl.name)

\* lines 361-363
tableNamesOf(allTables) == Map(allTables, LAMBDA tbl : toUpperCase(tbl.name))

\* lines 364-366
fullTableNamesOf(allTables) == Map(allTables, FullName)

\* lines 372-379: the table reference names a table of the schema or a CTE
tableExists(t, match, allTables) ==
  Bind(toUpperCase(match.g1), LAMBDA tableName :
    Bind(ShortName(tableName), LAMBDA shortName :
      Bind(cteNames(t), LAMBDA names :
        \/ Includes(tableNamesOf(allTables), shortName)
        \/ Includes(fullTableNamesOf(allTables), tableName)
        \/ Includes(names, shortName)
        \/ Includes(names, tableName))))

\* lines 368-392
checkTableRefs(t, allTables) ==
  Map(Filter(ExecAll(Cands(t, tableRefRegex), 0),
             LAMBDA tableMatch : ~tableExists(t, tableMatch, allTables)),
      LAMBDA tableMatch :
        DiagnosticAt(t,
          tableMatch.index
            + IndexOf(Substring(t, tableMatch.index, tableMatch.end), tableMatch.g1, 0),
          Len(tableMatch.g1), "Unknown table: " \o tableMatch.g1, "warning"))

\* line 395: /([idchar]+)\.([idchar]+)(?!\s*\()/g anchored at p.  When an open
\* parenthesis follows the second name, the name gives back its last character
columnRefRegex(t, p) ==
  LET Found(e1, e) ==
        IF e > e1 + 1
        THEN [index |-> p, end |-> e, g1 |-> Substring(t, p, e1),
              g2 |-> Substring(t, e1 + 1, e)]
        ELSE NoMatch
      AfterSecond(e1, e2) ==
        Found(e1, IF Ch(t, SkipWs(t, e2)) = "(" THEN e2 - 1 ELSE e2)
      AfterFirst(e1) ==
        IF Ch(t, e1) = "." THEN AfterSecond(e1, SkipId(t, e1 + 1)) ELSE NoMatch
  IN  IF Ch(t, p) \notin IdChars THEN NoMatch ELSE AfterFirst(SkipId(t, p))

\* the first element of a sequence that satisfies ok, as a sequence of at most
\* one element (a loop with break)
FirstWhere(a, Ok(_)) ==
  LET First(at) == IF at = {} THEN <<>> ELSE <<a[Min(at)]>>
  IN  First({i \in DOMAIN a : Ok(a[i])})

\* some column of the CTE has this name
cteColumnExists(cte, columnName) ==
  \E i \in DOMAIN cte.columns : cte.columns[i].name = columnName

\* lines 423-433 and 501-511
cteColumnDiagnostic(t, match, cte) ==
  IF cteColumnExists(cte, toUpperCase(match.g2)) THEN <<>>
  ELSE <<DiagnosticAt(t, match.index + Len(match.g1) + 1, Len(match.g2),
           "Unknown column \"" \o match.g2 \o "\" in CTE \"" \o cte.name
             \o "\". Available columns: "
             \o Join(Map(cte.columns, LAMBDA c : c.name), ", "),
           "warning")>>

\* lines 448-474 left out: an alias is looked for in the whole text
scopeTextWhole(t, columnRefOffset, parsedCTEs) == t

\* lines 448-474: the text in which an alias of the reference is looked for
scopeTextOf(t, columnRefOffset, parsedCTEs) ==
  LET Main(inBody, lastCteEnd) ==
        IF inBody = t /\ Len(parsedCTEs) > 0 /\ columnRefOffset > lastCteEnd
        THEN Substring(t, lastCteEnd, Len(t)) ELSE inBody
      Scope(inside) ==
        Main(IF inside = <<>> THEN t
             ELSE Substring(t, inside[1].bodyStartOffset, inside[1].bodyEndOffset),
             Max({0} \cup {parsedCTEs[i].endOffset : i \in DOMAIN parsedCTEs}))
  IN  Scope(FirstWhere(parsedCTEs,
              LAMBDA cte : /\ columnRefOffset >= cte.bodyStartOffset
                           /\ columnRefOffset <= cte.bodyEndOffset))

\* the text of tableOrAlias used as a pattern (line 477), matched at q from
\* its i-th character on: every character stands for itself without regard
\* to case, except $, which stands for the end of the text, and the dot (of a
\* number under the cursor, line 1343), which stands for any character but a
\* newline.  The offset after the match, or -1
RECURSIVE AliasPatternEnd(_, _, _, _)
AliasPatternEnd(scope, q, alias, i) ==
  IF i > Len(alias) THEN q
  ELSE IF Ch(alias, i - 1) = "$"
  THEN IF q = Len(scope) THEN AliasPatternEnd(scope, q, alias, i + 1) ELSE -1
  ELSE IF \/ UpperChar(Ch(scope, q)) = Ch(alias, i - 1)
          \/ (Ch(alias, i - 1) = "." /\ q < Len(scope) /\ Ch(scope, q) # "\n")
  THEN AliasPatternEnd(scope, q + 1, alias, i + 1) ELSE -1

\* ALIAS\b at q
AliasAt(scope, q, alias) ==
  LET Bounded(e) == e >= 0 /\ WordBoundary(scope, e)
  IN  Bounded(AliasPatternEnd(scope, q, alias, 1))

\* line 477: /(?:FROM|JOIN)\s+(name)\s+(?:AS\s+)?ALIAS\b/i anchored at p
aliasRegex(scope, p, alias) ==
  LET AfterAs(w2, w3) == w3 > w2 + 2 /\ AliasAt(scope, w3, alias)
      Found(ref, w2) ==
        IF w2 = ref.end THEN NoMatch
        ELSE IF \/ (LitAtI(scope, w2, "AS") /\ AfterAs(w2, SkipWs(scope, w2 + 2)))
                \/ AliasAt(scope, w2, alias)
        THEN [index |-> p, end |-> w2, g1 |-> ref.g1]
        ELSE NoMatch
      AfterRef(ref) == IF ref.index < 0 THEN NoMatch ELSE Found(ref, SkipWs(scope, ref.end))
  IN  AfterRef(tableRefRegex(scope, p))

\* line 478: scopeText.match(aliasRegex)
aliasMatchOf(scope, alias) ==
  FirstMatch({m \in {aliasRegex(scope, p, alias) : p \in 0..(Len(scope) - 1)} :
                m.index >= 0})

\* lines 523-542
tableColumnDiagnostic(t, match, found) ==
  IF found = <<>> \/ ~HasColumns(found[1]) THEN <<>>
  ELSE IF \E k \in DOMAIN found[1].columns :
             toUpperCase(found[1].columns[k].name) = toUpperCase(match.g2)
  THEN <<>>
  ELSE <<DiagnosticAt(t, match.index + Len(match.g1) + 1, Len(match.g2),
           "Unknown column \"" \o match.g2 \o "\" in table \"" \o found[1].name \o "\"",
           "warning")>>

\* lines 523-542: the qualifier taken as the name of a table
directTableDiagnostic(t, match, allTables, tableOrAlias) ==
  tableColumnDiagnostic(t, match,
    FirstWhere(allTables,
      LAMBDA tbl : \/ toUpperCase(tbl.name) = tableOrAlias
                   \/ SchemaOf(tbl) # "" /\ FullName(tbl) = tableOrAlias))

\* lines 396-542: the findings of one match of columnRefRegex
columnRefDiagnostics(t, match, allTables, parsedCTEs) ==
  \* line 401
  IF Includes(tableNamesOf(allTables), toUpperCase(match.g2)) THEN <<>>
  ELSE Bind(toUpperCase(match.g1), LAMBDA tableOrAlias :
    \* lines 405-435
    Bind(FirstWhere(parsedCTEs, LAMBDA cte : cte.name = tableOrAlias), LAMBDA foundCTE :
      IF foundCTE # <<>> THEN cteColumnDiagnostic(t, match, foundCTE[1])
      \* lines 476-481
      ELSE Bind(aliasMatchOf(scopeTextOf(t, match.index, parsedCTEs), tableOrAlias),
        LAMBDA aliasMatch :
          IF aliasMatch.index < 0
          THEN directTableDiagnostic(t, match, allTables, tableOrAlias)
          ELSE Bind(toUpperCase(aliasMatch.g1), LAMBDA aliasedTableName :
            Bind(ShortName(aliasedTableName), LAMBDA aliasedShortName :
              \* lines 483-513: the CTE the alias stands for
              Bind(FirstWhere(parsedCTEs,
                     LAMBDA aliased : \/ aliased.name = aliasedShortName
                                      \/ aliased.name = aliasedTableName),
                LAMBDA aliasedCTE :
                  IF aliasedCTE # <<>>
                  THEN cteColumnDiagnostic(t, match, aliasedCTE[1])
                  \* lines 515-521: the table the alias stands for
                  ELSE Bind(FirstWhere(allTables,
                              LAMBDA tbl : toUpperCase(tbl.name) = aliasedShortName),
                    LAMBDA aliasedTable :
                      IF aliasedTable # <<>>
                      THEN tableColumnDiagnostic(t, match, aliasedTable)
                      ELSE directTableDiagnostic(t, match, allTables,
                                                 tableOrAlias))))))))

\* lines 394-543
checkColumnRefs(t, allTables, parsedCTEs) ==
  Flatten(Map(ExecAll(Cands(t, columnRefRegex), 0),
              LAMBDA match : columnRefDiagnostics(t, match, allTables, parsedCTEs)))

\* line 123
sqlKeywords ==
  <<"SELECT", "FROM", "WHERE", "AND", "OR", "AS", "ON", "JOIN", "LEFT", "RIGHT",
    "INNER", "OUTER", "FULL", "CROSS", "GROUP", "BY", "ORDER", "HAVING", "UNION",
    "EXCEPT", "INTERSECT", "CASE", "WHEN", "THEN", "ELSE", "END", "NULL", "NOT",
    "IN", "BETWEEN", "LIKE", "EXISTS", "IS", "TRUE", "FALSE", "DISTINCT", "ALL",
    "ASC", "DESC", "FETCH", "FIRST", "ROWS", "ONLY", "LIMIT", "OFFSET", "MAX",
    "MIN", "SUM", "AVG", "COUNT", "CAST", "COALESCE", "NULLIF", "TRIM", "UPPER",
    "LOWER", "SUBSTRING", "SUBSTR", "LENGTH", "CONCAT", "DATE", "TIME",
    "TIMESTAMP", "CHAR", "VARCHAR", "INTEGER", "DECIMAL", "NUMERIC", "DIGITS",
    "FLOAT", "DOUBLE", "REAL", "SMALLINT", "BIGINT", "CLOB", "BLOB", "DBCLOB",
    "DECFLOAT", "XML", "BOOLEAN", "TIMESTAMPDIFF", "LPAD", "RPAD", "ROW_NUMBER",
    "OVER", "PARTITION", "LAG", "LEAD", "RANK", "DENSE_RANK", "NTILE", "VALUES",
    "INSERT", "UPDATE", "DELETE", "SET", "INTO", "CREATE", "ALTER", "DROP",
    "TABLE", "VIEW", "INDEX", "WITH", "RECURSIVE">>

\* lines 613 and 866: /(?<![idchar])([A-Za-z_#@$][idchar]*)(?![idchar])/g at p
identifierPattern(x, p) ==
  LET Found(e) == [index |-> p, end |-> e, g1 |-> Substring(x, p, e)]
  IN  IF Ch(x, p) \in IdStartChars /\ Ch(x, p - 1) \notin IdChars
      THEN Found(SkipId(x, p)) ELSE NoMatch

\* lines 618-632 and 869-883: the identifier is looked up as a column (it is
\* no keyword, no function call, no part of a qualified name)
isColumnCandidate(x, idMatch) ==
  LET Next1(c) == c # "(" /\ c # "."
  IN  /\ ~Includes(sqlKeywords, toUpperCase(idMatch.g1))
      /\ ~(idMatch.index > 0 /\ Ch(x, idMatch.index - 1) = ".")
      /\ Next1(Ch(x, SkipWs(x, idMatch.end)))

\* the identifiers of an expression that are looked up as columns
columnCandidates(x) ==
  Filter(ExecAll(Cands(x, identifierPattern), 0),
         LAMBDA idMatch : isColumnCandidate(x, idMatch))

\* lines 651 and 900: /\bSELECT\s+\*/i anchored at p
selectStarRegex(x, p) ==
  LET AfterWs(w) ==
        IF w > p + 6 /\ Ch(x, w) = "*" THEN [index |-> p, end |-> w + 1] ELSE NoMatch
  IN  IF LitAtI(x, p, "SELECT") /\ Ch(x, p - 1) \notin WordChars
      THEN AfterWs(SkipWs(x, p + 6)) ELSE NoMatch

\* lines 655 and 904: /(?<![idchar])(ident(?:\.ident)?)\.\*/g anchored at p
wildcardRegex(x, p) ==
  LET Found(e) ==
        IF LitAt(x, e, ".*") THEN [index |-> p, end |-> e + 2, g1 |-> Substring(x, p, e)]
        ELSE NoMatch
      Qualified(e1, m) == IF m.index >= 0 THEN m ELSE Found(e1)
      AfterFirst(e1) ==
        Qualified(e1, IF Ch(x, e1) = "." /\ Ch(x, e1 + 1) \in IdStartChars
                      THEN Found(SkipId(x, e1 + 1)) ELSE NoMatch)
  IN  IF Ch(x, p) \notin IdStartChars \/ Ch(x, p - 1) \in IdChars THEN NoMatch
      ELSE AfterFirst(SkipId(x, p))

\* lines 664 and 912: the words an alias is not taken from
NotAliasKeywords ==
  <<"ON", "WHERE", "JOIN", "LEFT", "RIGHT", "INNER", "OUTER", "CROSS", "FULL",
    "AND", "OR", "GROUP", "ORDER", "HAVING", "UNION", "LIMIT", "FETCH">>

\* (?!(?:ON|WHERE|...)\b)([A-Za-z_#@$][idchar]*) at q
AliasNameAt(x, q) ==
  /\ Ch(x, q) \in IdStartChars
  /\ ~\E k \in DOMAIN NotAliasKeywords :
        /\ LitAtI(x, q, NotAliasKeywords[k])
        /\ Ch(x, q + Len(NotAliasKeywords[k])) \notin WordChars

\* lines 664 and 912: /(?:FROM|JOIN)\s+(name)(?:\s+(?:AS\s+)?(?!...)(ident))?/gi
\* anchored at p; g2 is "" when the optional part is absent
cteFromJoinRegex(x, p) ==
  LET Alias(ref, w, e) ==
        [index |-> p, end |-> e, g1 |-> ref.g1, g2 |-> Substring(x, w, e)]
      AfterAs(ref, w2, w3) ==
        IF w3 > w2 + 2 /\ AliasNameAt(x, w3) THEN Alias(ref, w3, SkipId(x, w3))
        ELSE IF AliasNameAt(x, w2) THEN Alias(ref, w2, SkipId(x, w2))
        ELSE [index |-> p, end |-> ref.end, g1 |-> ref.g1, g2 |-> ""]
      AfterWs(ref, w2) ==
        IF w2 > ref.end /\ LitAtI(x, w2, "AS") THEN AfterAs(ref, w2, SkipWs(x, w2 + 2))
        ELSE IF w2 > ref.end /\ AliasNameAt(x, w2) THEN Alias(ref, w2, SkipId(x, w2))
        ELSE [index |-> p, end |-> ref.end, g1 |-> ref.g1, g2 |-> ""]
      AfterRef(ref) == IF ref.index < 0 THEN NoMatch ELSE AfterWs(ref, SkipWs(x, ref.end))
  IN  AfterRef(tableRefRegex(x, p))

\* lines 667-675: the assignments to cteAliasMap one match makes, in order
aliasMapEntries(fjMatch) ==
  LET Entries(tblName) ==
        (IF fjMatch.g2 # "" THEN <<[key |-> toUpperCase(fjMatch.g2), tableName |-> tblName]>>
         ELSE <<>>)
        \o <<[key |-> ShortName(tblName), tableName |-> tblName],
             [key |-> tblName, tableName |-> tblName]>>
  IN  Entries(toUpperCase(fjMatch.g1))

\* lines 662-676
cteAliasMapOf(refCteBody) ==
  Flatten(Map(ExecAll(Cands(refCteBody, cteFromJoinRegex), 0), aliasMapEntries))

\* line 705: cteAliasMap[wcPattern] || wcPattern (the last assignment wins)
resolveAlias(entries, wcPattern) ==
  LET Last(at) == IF at = {} THEN wcPattern ELSE entries[Max(at)].tableName
  IN  Last({i \in DOMAIN entries : entries[i].key = wcPattern})

\* a table was found, it lists its columns and one of them has this name
\* (compared in upper case)
FoundHasColumn(found, col) ==
  /\ found # <<>>
  /\ HasColumns(found[1])
  /\ \E k \in DOMAIN found[1].columns : toUpperCase(found[1].columns[k].name) = col

\* lines 683-697 and 708-722: the first table of the schema with this short
\* name, or this qualified name, has the column
sourceTableHasColumn(allTables, shortName, fullName, col) ==
  FoundHasColumn(
    FirstWhere(allTables,
      LAMBDA tbl : \/ toUpperCase(tbl.name) = shortName
                   \/ SchemaOf(tbl) # "" /\ FullName(tbl) = fullName),
    col)

\* lines 647-725 and 898-971: the column comes out of a wildcard of the CTE
wildcardColumnFound(t, refCTE, allTables, col) ==
  Bind(Substring(t, refCTE.bodyStartOffset, refCTE.bodyEndOffset), LAMBDA refCteBody :
    IF Cands(refCteBody, selectStarRegex) # {}
    THEN \E i \in DOMAIN refCTE.fromTables :
            sourceTableHasColumn(allTables, ShortName(refCTE.fromTables[i]),
                                 refCTE.fromTables[i], col)
    ELSE Bind(cteAliasMapOf(refCteBody), LAMBDA cteAliasMap :
      Bind(ExecAll(Cands(refCteBody, wildcardRegex), 0), LAMBDA wildcardPatterns :
        \E i \in DOMAIN wildcardPatterns :
           Bind(resolveAlias(cteAliasMap, toUpperCase(wildcardPatterns[i].g1)),
             LAMBDA tableName :
               sourceTableHasColumn(allTables, ShortName(tableName), tableName, col)))))

\* lines 635-727 and 886-973
foundInCTE(t, refs, allTables, col) ==
  \E i \in DOMAIN refs :
     \/ cteColumnExists(refs[i], col)
     \/ wildcardColumnFound(t, refs[i], allTables, col)

\* lines 551-560: the CTEs the FROM tables of a CTE name, in order
referencedCTEsOf(fromTables, parsedCTEs) ==
  Flatten(Map(fromTables,
              LAMBDA fromTable :
                FirstWhere(parsedCTEs, LAMBDA cte : cte.name = fromTable)))

\* lines 730-760: a FROM table of the CTE that is no CTE has the column
foundInTable(currentCTE, parsedCTEs, allTables, col) ==
  LET InTable(shortName) ==
        FoundHasColumn(
          FirstWhere(allTables, LAMBDA tbl : toUpperCase(tbl.name) = shortName), col)
  IN  \E k \in DOMAIN currentCTE.fromTables :
         /\ ~\E i \in DOMAIN parsedCTEs : parsedCTEs[i].name = currentCTE.fromTables[k]
         /\ InTable(ShortName(currentCTE.fromTables[k]))

\* lines 764-771 and 976-981: the offset in the text of an identifier found at
\* matchIndex of the checked expression
unqualifiedOffset(colExpr, selectStartOffset, matchIndex) ==
  LET From(contentStart) ==
        selectStartOffset + colExpr.start
        + (IF contentStart > 0 THEN contentStart ELSE 0) + matchIndex
  IN  From(IndexOf(colExpr.untrimmed, colExpr.expr, 0))

\* cte.columns.map(c => c.name).join(', ')
ColumnNames(cte) == Join(Map(cte.columns, LAMBDA c : c.name), ", ")

\* line 777: the columns of the referenced CTEs
availableColumns(refs) == Join(Map(refs, ColumnNames), ", ")

\* lines 601-782: the findings of one expression of the SELECT clause of a CTE
cteExprDiagnostics(t, colExpr, selectStartOffset, currentCTE, refs, allTables, parsedCTEs) ==
  Bind(stripCommentsAndStrings(colExpr.expr), LAMBDA stripped :
    Bind(asRegex(stripped), LAMBDA asMatch :
      Bind(IF asMatch.index >= 0 THEN Trim(asMatch.g1) ELSE stripped, LAMBDA exprToCheck :
        IF Ch(exprToCheck, 0) \in (Digits \cup {"'"}) \/ exprToCheck = "*" THEN <<>>
        ELSE Map(Filter(columnCandidates(exprToCheck),
                   LAMBDA idMatch :
                     /\ ~foundInCTE(t, refs, allTables, toUpperCase(idMatch.g1))
                     /\ ~foundInTable(currentCTE, parsedCTEs, allTables,
                                      toUpperCase(idMatch.g1))),
               LAMBDA idMatch :
                 DiagnosticAt(t,
                   unqualifiedOffset(colExpr, selectStartOffset, idMatch.index),
                   Len(idMatch.g1),
                   "Unknown column \"" \o idMatch.g1
                     \o "\". Available columns from CTEs: " \o availableColumns(refs),
                   "warning")))))

\* lines 569-570 and 804: the offset in text of group 1 of a match found in a part
\* of the text that starts at partStart
GroupOffset(part, partStart, m) ==
  partStart + IndexOf(part, Substring(part, m.index, m.end), 0)
  + (m.end - m.index - Len(m.g1))

\* lines 547-784: the findings in the body of one CTE
cteBodyDiagnostics(t, currentCTE, allTables, parsedCTEs) ==
  Bind(Substring(t, currentCTE.bodyStartOffset, currentCTE.bodyEndOffset), LAMBDA cteBody :
    Bind(referencedCTEsOf(currentCTE.fromTables, parsedCTEs), LAMBDA refs :
      Bind(FirstMatch(Cands(cteBody, selectFromRegex)), LAMBDA selectMatch :
        IF Len(refs) = 0 \/ selectMatch.index < 0 THEN <<>>
        ELSE Bind(GroupOffset(cteBody, currentCTE.bodyStartOffset, selectMatch),
          LAMBDA selectStartOffset :
            Flatten(Map(SplitColumns(selectMatch.g1, TRUE),
                        LAMBDA colExpr :
                          cteExprDiagnostics(t, colExpr, selectStartOffset, currentCTE,
                                             refs, allTables, parsedCTEs)))))))

\* lines 545-785
checkCteBodies(t, allTables, parsedCTEs) ==
  Flatten(Map(parsedCTEs,
              LAMBDA currentCTE : cteBodyDiagnostics(t, currentCTE, allTables, parsedCTEs)))

\* line 807: /FROM\s+([A-Za-z_#@$][A-Za-z0-9_#@$]*)/i anchored at p
mainFromRegex(x, p) ==
  LET Found(w, e) == [index |-> p, end |-> e, g1 |-> Substring(x, w, e)]
      AfterWs(w) ==
        IF w > p + 4 /\ Ch(x, w) \in IdStartChars THEN Found(w, SkipId(x, w)) ELSE NoMatch
  IN  IF LitAtI(x, p, "FROM") THEN AfterWs(SkipWs(x, p + 4)) ELSE NoMatch

\* line 858: /^[A-Za-z_#@$][A-Za-z0-9_#@$]*\.\*$/
qualifiedStarRegex(x) ==
  LET AfterName(e) == LitAt(x, e, ".*") /\ e + 2 = Len(x)
  IN  Ch(x, 0) \in IdStartChars /\ AfterName(SkipId(x, 0))

\* line 861: /\bAS\b/i anchored at p
asWordRegex(x, p) ==
  IF LitAtI(x, p, "AS") /\ Ch(x, p - 1) \notin WordChars /\ Ch(x, p + 2) \notin WordChars
  THEN [index |-> p, end |-> p + 2] ELSE NoMatch

\* lines 861-863
withoutAlias(x) ==
  IF Cands(x, asWordRegex) = {} THEN x
  ELSE Bind(AsAliasRegex(x, FALSE),
            LAMBDA asMatch : IF asMatch.index >= 0 THEN asMatch.g1 ELSE x)

\* lines 853-991: the findings of one expression of the main SELECT clause
mainExprDiagnostics(t, colExpr, mainSelectOffset, refs, allTables) ==
  Bind(stripCommentsAndStrings(colExpr.expr), LAMBDA stripped :
    IF Trim(stripped) = "*" \/ qualifiedStarRegex(Trim(stripped)) THEN <<>>
    ELSE Map(Filter(columnCandidates(withoutAlias(stripped)),
               LAMBDA idMatch : ~foundInCTE(t, refs, allTables, toUpperCase(idMatch.g1))),
           LAMBDA idMatch :
             DiagnosticAt(t, unqualifiedOffset(colExpr, mainSelectOffset, idMatch.index),
               Len(idMatch.g1),
               "Unknown column \"" \o idMatch.g1 \o "\". Available columns from CTE \""
                 \o refs[1].name \o "\": " \o ColumnNames(refs[1]),
               "warning")))

\* lines 787-995
checkMainQuery(t, allTables, parsedCTEs) ==
  Bind(Max({0} \cup {parsedCTEs[i].endOffset : i \in DOMAIN parsedCTEs}), LAMBDA lastCTEEnd :
    Bind(Substring(t, lastCTEEnd, Len(t)), LAMBDA mainQueryText :
      Bind(FirstMatch(Cands(mainQueryText, selectFromRegex)), LAMBDA mainSelectMatch :
        Bind(FirstMatch(Cands(mainQueryText, mainFromRegex)), LAMBDA mainFromMatch :
          Bind(IF mainFromMatch.index < 0 THEN <<>>
               ELSE FirstWhere(parsedCTEs,
                      LAMBDA cte : cte.name = toUpperCase(mainFromMatch.g1)),
            LAMBDA refs :
              IF Len(parsedCTEs) = 0 \/ mainSelectMatch.index < 0 \/ Len(refs) = 0
              THEN <<>>
              ELSE Bind(GroupOffset(mainQueryText, lastCTEEnd, mainSelectMatch),
                LAMBDA mainSelectOffset :
                  Flatten(Map(SplitColumns(mainSelectMatch.g1, FALSE),
                              LAMBDA colExpr :
                                mainExprDiagnostics(t, colExpr, mainSelectOffset, refs,
                                                    allTables)))))))))

\* lines 359-996: the findings that need the schema
schemaDiagnostics(t, config) ==
  Bind(getAllTablesForValidation(config), LAMBDA allTables :
    Bind(parseCTEs(t), LAMBDA parsedCTEs :
      checkTableRefs(t, allTables) \o checkColumnRefs(t, allTables, parsedCTEs)
      \o checkCteBodies(t, allTables, parsedCTEs)
      \o checkMainQuery(t, allTables, parsedCTEs)))

\* the optional argument schemaConfig: supplied is FALSE when it is left out
NoSchema == [supplied |-> FALSE]

\* lines 115-999 with the schema checks run before the structural ones
validateDB2SQLSchemaFirst(t, config) ==
  (IF config.supplied THEN schemaDiagnostics(t, config) ELSE <<>>)
  \o structuralDiagnostics(t)

\* lines 115-998 without the test of line 359: the schema checks always run
validateDB2SQLUnguarded(t, config) ==
  structuralDiagnostics(t) \o schemaDiagnostics(t, config)

\* lines 115-999
validateDB2SQL(t, config) ==
  structuralDiagnostics(t)
  \o (IF config.supplied THEN schemaDiagnostics(t, config) ELSE <<>>)

(***************************************************************************)
(* getSQLContext (lines 1957-2072).  The model and the position are given  *)
(* as the document text and the offset of the cursor in it.                *)
(***************************************************************************)
\* line 2000: /(?:FROM|JOIN)\s+(name)(?:\s+(?:AS\s+)?([A-Za-z_#@$][idchar]*))?/gi
\* anchored at p; g2 is "" when the optional part is absent
tableAliasRegex(x, p) ==
  LET Alias(ref, w, e) ==
        [index |-> p, end |-> e, g1 |-> ref.g1, g2 |-> Substring(x, w, e)]
      None(ref) == [index |-> p, end |-> ref.end, g1 |-> ref.g1, g2 |-> ""]
      AfterAs(ref, w2, w3) ==
        IF w3 > w2 + 2 /\ Ch(x, w3) \in IdStartChars THEN Alias(ref, w3, SkipId(x, w3))
        ELSE IF Ch(x, w2) \in IdStartChars THEN Alias(ref, w2, SkipId(x, w2))
        ELSE None(ref)
      AfterWs(ref, w2) ==
        IF w2 > ref.end /\ LitAtI(x, w2, "AS") THEN AfterAs(ref, w2, SkipWs(x, w2 + 2))
        ELSE IF w2 > ref.end /\ Ch(x, w2) \in IdStartChars
        THEN Alias(ref, w2, SkipId(x, w2))
        ELSE None(ref)
      AfterRef(ref) == IF ref.index < 0 THEN NoMatch ELSE AfterWs(ref, SkipWs(x, ref.end))
  IN  AfterRef(tableRefRegex(x, p))

\* lines 2003-2015: the body of the exec loop for one match; aliasToTable is
\* a function from the keys of the object to their values
AliasStep(acc, match) ==
  LET Short(a1, tableName, shortName) ==
        [referencedTables |-> Append(acc.referencedTables, tableName),
         aliasToTable |-> IF shortName \notin DOMAIN a1
                          THEN (shortName :> tableName) @@ a1 ELSE a1]
      Named(tableName) ==
        Short(IF match.g2 # ""
              THEN (toUpperCase(match.g2) :> tableName) @@ acc.aliasToTable
              ELSE acc.aliasToTable,
              tableName, ShortName(tableName))
  IN  Named(toUpperCase(match.g1))

\* line 2002: the exec loop over the matches ms[i..]
RECURSIVE AliasLoop(_, _, _)
AliasLoop(ms, i, acc) ==
  IF i > Len(ms) THEN acc ELSE AliasLoop(ms, i + 1, AliasStep(acc, ms[i]))

\* lines 1995-2016
referencesOf(fullStatement) ==
  AliasLoop(ExecAll(Cands(fullStatement, tableAliasRegex), 0), 1,
            [referencedTables |-> <<>>, aliasToTable |-> <<>>])

\* line 2021: textBeforeCursor.match(/([A-Za-z0-9_#@$]+)\.\s*$/), the offset of
\* group 1 and the offset of the dot, or NoMatch
dotMatchOf(textBeforeCursor) ==
  LET Found(e, at) ==
        IF e >= 2 /\ Ch(textBeforeCursor, e - 1) = "." /\ at # {}
        THEN [index |-> Min(at), end |-> Len(textBeforeCursor),
              g1 |-> Substring(textBeforeCursor, Min(at), e - 1)]
        ELSE NoMatch
      Before(e) == Found(e, {p \in 0..(e - 2) : SkipId(textBeforeCursor, p) = e - 1})
  IN  Before(Len(TrimEnd(textBeforeCursor)))

\* lines 2031-2035: the text before the word being typed, right-trimmed
\* (wordMatch is /(\S+)\s*$/: the last run of non-blank characters and the
\* white space after it)
RECURSIVE SkipBackWord(_, _)
SkipBackWord(s, e) ==
  IF e > 0 /\ Ch(s, e - 1) \notin WsChars THEN SkipBackWord(s, e - 1) ELSE e

trimmedBeforeWordOf(textBeforeCursor) ==
  LET BeforeWord(e) ==
        IF e > 0 THEN Substring(textBeforeCursor, 0, SkipBackWord(textBeforeCursor, e))
        ELSE textBeforeCursor
  IN  TrimEnd(BeforeWord(Len(TrimEnd(textBeforeCursor))))

\* line 2038: (?:FROM|JOIN|INTO|UPDATE|TABLE|TRUNCATE)
tableKeywordAlts ==
  << <<"FROM">>, <<"JOIN">>, <<"INTO">>, <<"UPDATE">>, <<"TABLE">>, <<"TRUNCATE">> >>

\* line 2046: (?:SELECT|WHERE|AND|OR|ON|SET|ORDER\s+BY|GROUP\s+BY|HAVING|,)
columnKeywordAlts ==
  << <<"SELECT">>, <<"WHERE">>, <<"AND">>, <<"OR">>, <<"ON">>, <<"SET">>,
     <<"ORDER", "BY">>, <<"GROUP", "BY">>, <<"HAVING">>, <<",">> >>

\* /(?:alts)\s*$/i.test(s): some alternative matches somewhere and only white
\* space follows it up to the end of s
TestAtEnd(s, alts) ==
  LET AtEnd(e) == e >= 0 /\ SkipWs(s, e) = Len(s)
  IN  \E p \in 0..(Len(s) - 1) : \E i \in DOMAIN alts : AtEnd(KwSeqEnd(s, p, alts[i], 1))

\* lines 2038 and 2046
tableKeywords(s) == TestAtEnd(s, tableKeywordAlts)
columnKeywords(s) == TestAtEnd(s, columnKeywordAlts)

\* lines 2053-2062: /\bWORD\b/i.test(s)
HasWord(s, word) ==
  \E p \in 0..(Len(s) - Len(word)) :
     LitAtI(s, p, word) /\ WordBoundary(s, p) /\ WordBoundary(s, p + Len(word))

\* lines 2038-2069: the context when no qualifier stands before the cursor
contextOf(currentStatement, trimmedStatement, trimmedBeforeWord) ==
  IF tableKeywords(trimmedStatement \o " ") \/ tableKeywords(trimmedBeforeWord \o " ")
  THEN "table"
  ELSE IF columnKeywords(trimmedStatement \o " ")
          \/ columnKeywords(trimmedBeforeWord \o " ")
  THEN "column"
  ELSE IF HasWord(currentStatement, "SELECT") /\ ~HasWord(currentStatement, "FROM")
  THEN "column"
  ELSE IF HasWord(currentStatement, "FROM") /\ ~HasWord(currentStatement, "WHERE")
          /\ ~HasWord(currentStatement, "GROUP") /\ ~HasWord(currentStatement, "ORDER")
          /\ ~tableKeywords(trimmedBeforeWord \o " ")
  THEN "column"
  ELSE "general"

\* lines 1957-2072
getSQLContext(fullText, position) ==
  Bind(Substring(fullText, 0, position), LAMBDA textUntilPosition :
    Bind(LastIndexOf(textUntilPosition, ";"), LAMBDA lastSemicolon :
      Bind(Substring(fullText, IF lastSemicolon >= 0 THEN lastSemicolon + 1 ELSE 0,
                     Len(fullText)),
        LAMBDA textAfterStart :
          Bind(IndexOf(textAfterStart, ";", 0), LAMBDA nextSemicolon :
            \* lines 1995-2016
            Bind(referencesOf(IF nextSemicolon >= 0
                              THEN Substring(textAfterStart, 0, nextSemicolon)
                              ELSE textAfterStart),
              LAMBDA refs :
                \* lines 2019-2020: the line of the cursor, up to the cursor
                Bind(Substring(textUntilPosition,
                               LastIndexOf(textUntilPosition, "\n") + 1,
                               Len(textUntilPosition)),
                  LAMBDA textBeforeCursor :
                    Bind(dotMatchOf(textBeforeCursor), LAMBDA dotMatch :
                      IF dotMatch.index >= 0
                      THEN [context |-> "column",
                            tableAlias |-> toUpperCase(dotMatch.g1),
                            referencedTables |-> refs.referencedTables,
                            aliasToTable |-> refs.aliasToTable]
                      ELSE Bind(IF lastSemicolon >= 0
                                THEN Substring(textUntilPosition, lastSemicolon + 1,
                                               Len(textUntilPosition))
                                ELSE textUntilPosition,
                        LAMBDA currentStatement :
                          [context |-> contextOf(currentStatement,
                                         TrimEnd(currentStatement),
                                         trimmedBeforeWordOf(textBeforeCursor)),
                           referencedTables |-> refs.referencedTables,
                           aliasToTable |-> refs.aliasToTable]))))))))

(***************************************************************************)
(* createDB2SQLCompletionProvider: provideCompletionItems (lines 2138-     *)
(* 2767).  The model and the position are given as the document text and   *)
(* the offset of the cursor in it.  A suggestion carries its label, kind,  *)
(* insertText, detail and sortText; the range (the word at the cursor, the *)
(* same in every suggestion) and the documentation are left out.           *)
(***************************************************************************)
\* an optional string property of an object: "" (falsy, as undefined is)
\* when it is absent
Prop(obj, key) == IF key \in DOMAIN obj THEN obj[key] ELSE ""

\* lines 2077-2102
getAllTables(config) ==
  IF ~config.supplied THEN <<>>
  ELSE (IF "tables" \in DOMAIN config THEN config.tables ELSE <<>>)
       \o (IF "schemas" \in DOMAIN config
           THEN Flatten([j \in DOMAIN config.schemas |-> SchemaTables(config.schemas[j])])
           ELSE <<>>)

\* lines 2107-2126
getColumnsForTable(tableName, config) ==
  LET Columns(found) ==
        IF found # <<>> /\ HasColumns(found[1]) THEN found[1].columns ELSE <<>>
  IN  Columns(FirstWhere(getAllTables(config),
                LAMBDA tbl : \/ FullName(tbl) = toUpperCase(tableName)
                             \/ toUpperCase(tbl.name) = toUpperCase(tableName)))

\* lines 2147-2157: the line up to the cursor holds "--" and its first "--"
\* has an even number of quotes before it
lineCommentBefore(textBeforeCursor) ==
  LET Outside(lineCommentIndex) ==
        /\ lineCommentIndex >= 0
        /\ Cardinality({i \in 0..(lineCommentIndex - 1) :
                          Ch(textBeforeCursor, i) = "'"}) % 2 = 0
  IN  Outside(IndexOf(textBeforeCursor, "--", 0))

\* lines 2169-2180: the body of the loop over the text up to the cursor
BlockCommentStep(s, st) ==
  LET Step(ch, next) ==
        IF ch = "'" THEN [st EXCEPT !.inStr = ~st.inStr, !.ci = @ + 1]
        ELSE IF ~st.inStr /\ ch = "/" /\ next = "*"
        THEN [st EXCEPT !.blockCommentDepth = @ + 1, !.ci = @ + 2]
        ELSE IF ~st.inStr /\ ch = "*" /\ next = "/"
        THEN [st EXCEPT !.blockCommentDepth = @ - 1, !.ci = @ + 2]
        ELSE [st EXCEPT !.ci = @ + 1]
  IN  Step(Ch(s, st.ci), Ch(s, st.ci + 1))

\* line 2168: for (ci = 0; ci < hi; ci++), run from st (first to the middle
\* of what is left, then to hi)
RECURSIVE BlockCommentScan(_, _, _)
BlockCommentScan(s, hi, st) ==
  IF st.ci >= hi THEN st
  ELSE IF st.ci + 1 >= hi THEN BlockCommentStep(s, st)
  ELSE BlockCommentScan(s, hi, BlockCommentScan(s, (st.ci + hi) \div 2, st))

\* lines 2166-2182: blockCommentDepth after the loop, which stops one
\* character before the cursor
blockCommentDepthOf(fullTextToCursor) ==
  BlockCommentScan(fullTextToCursor, Len(fullTextToCursor) - 1,
                   [ci |-> 0, blockCommentDepth |-> 0, inStr |-> FALSE]).blockCommentDepth

\* a suggestion whose sortText is the label before the digit of its rank
SuggestionRankLast(label, kind, detail, rank) ==
  [label |-> label, kind |-> kind, insertText |-> label, detail |-> detail,
   sortText |-> label \o rank]

\* a suggestion whose insertText is its label and whose sortText is the
\* label after the digit of its rank
Suggestion(label, kind, detail, rank) ==
  [label |-> label, kind |-> kind, insertText |-> label, detail |-> detail,
   sortText |-> rank \o label]

\* lines 2259-2269, 2319-2329 and 2586-2596: the columns of a CTE
cteColumnSuggestions(cte) ==
  Map(cte.columns,
      LAMBDA col : Suggestion(col.name, "Field",
                     cte.name \o " (CTE) | "
                       \o (IF Prop(col, "expression") # "" THEN "Computed" ELSE "Column"),
                     "0"))

\* lines 2244 and 2304: /\b(WHERE|AND|OR|ON|HAVING)\s+[^;]*$/i.test(s)
afterWhereRegex(s) ==
  \E p \in 0..(Len(s) - 1) : \E k \in {"WHERE", "AND", "OR", "ON", "HAVING"} :
     /\ LitAtI(s, p, k)
     /\ Ch(s, p - 1) \notin WordChars
     /\ Ch(s, p + Len(k)) \in WsChars
     /\ IndexOf(s, ";", p + Len(k)) < 0

\* lines 2241-2246 and 2299-2306: SELECT without FROM before the cursor, or
\* one of the words of afterWhereRegex
columnContextBefore(s) ==
  (HasWord(s, "SELECT") /\ ~HasWord(s, "FROM")) \/ afterWhereRegex(s)

\* line 2249: /\bFROM\s+([A-Za-z_#@$][A-Za-z0-9_#@$]*)/i anchored at p
fromIdentRegex(x, p) ==
  IF Ch(x, p - 1) \in WordChars THEN NoMatch ELSE mainFromRegex(x, p)

\* lines 2236-2287: what the branch of the main query returns, as a sequence
\* of at most one list of suggestions (none when it does not return)
mainQuerySuggestions(fullText, cursorOffset, lastCTEEndOffset, parsedCTEs) ==
  LET Named(mainFromTable) ==
        Map(FirstWhere(parsedCTEs, LAMBDA cte : cte.name = mainFromTable),
            LAMBDA cte : cteColumnSuggestions(cte)
                         \o <<Suggestion(cte.name, "Struct", "CTE", "1")>>)
      From(fromMatch) ==
        IF fromMatch.index < 0 THEN <<>> ELSE Named(toUpperCase(fromMatch.g1))
  IN  IF columnContextBefore(Substring(fullText, lastCTEEndOffset, cursorOffset))
      THEN From(FirstMatch(Cands(Substring(fullText, lastCTEEndOffset, Len(fullText)),
                                 fromIdentRegex)))
      ELSE <<>>

\* lines 2374-2407: the push of the columns of the schema tables a wildcard
\* of srcCte names, each unless a suggestion already has its label
RECURSIVE pushNew(_, _)
pushNew(suggestions, items) ==
  IF items = <<>> THEN suggestions
  ELSE pushNew(IF \E si \in DOMAIN suggestions : suggestions[si].label = Head(items).label
               THEN suggestions ELSE Append(suggestions, Head(items)),
               Tail(items))

\* lines 2378-2405: the suggestions for the columns of the tables of the
\* schema that srcFromTable names
starColumnsOf(srcFromTable, srcCte, config) ==
  Flatten(Map(Filter(getAllTables(config),
                     LAMBDA tbl : \/ toUpperCase(tbl.name) = ShortName(srcFromTable)
                                  \/ SchemaOf(tbl) # "" /\ FullName(tbl) = srcFromTable),
              LAMBDA tbl :
                IF ~HasColumns(tbl) THEN <<>>
                ELSE Map(tbl.columns,
                       LAMBDA col : Suggestion(col.name, "Field",
                                      tbl.name \o " (via " \o srcCte.name \o " CTE *) | "
                                        \o (IF Prop(col, "dataType") # ""
                                            THEN col.dataType ELSE "Column"),
                                      "0"))))

\* lines 2331-2372: the tables whose columns the wildcards of srcCte bring in
tablesToIncludeOf(fullText, srcCte) ==
  LET Resolved(cteAliasMap, wildcardPatterns) ==
        Map(wildcardPatterns,
            LAMBDA wc : resolveAlias(cteAliasMap, toUpperCase(wc.g1)))
      Of(cteBody) ==
        IF Cands(cteBody, selectStarRegex) # {}
        THEN Map(srcCte.fromTables, LAMBDA tbl : toUpperCase(tbl))
        ELSE Resolved(cteAliasMapOf(cteBody), ExecAll(Cands(cteBody, wildcardRegex), 0))
  IN  Of(Substring(fullText, srcCte.bodyStartOffset, srcCte.bodyEndOffset))

\* lines 2310-2439: the body of the loop over the FROM tables of the CTE the
\* cursor is in; acc holds suggestions and cteSuggestionsAdded
fromTableStep(fullText, acc, fromTableName, parsedCTEs, config) ==
  LET OfCte(srcCte) ==
        [suggestions |->
           pushNew(acc.suggestions \o cteColumnSuggestions(srcCte),
                   IF config.supplied
                   THEN Flatten(Map(tablesToIncludeOf(fullText, srcCte),
                                    LAMBDA srcFromTable :
                                      starColumnsOf(srcFromTable, srcCte, config)))
                   ELSE <<>>),
         cteSuggestionsAdded |-> TRUE]
      OfTable(found) ==
        IF found = <<>> THEN acc
        ELSE [suggestions |->
                acc.suggestions
                \o (IF HasColumns(found[1])
                    THEN Map(found[1].columns,
                           LAMBDA col : Suggestion(col.name, "Field",
                                          found[1].name \o " | "
                                            \o (IF Prop(col, "dataType") # ""
                                                THEN col.dataType ELSE "Column"),
                                          "0"))
                    ELSE <<>>),
              cteSuggestionsAdded |-> TRUE]
      Step(srcCtes) ==
        IF srcCtes # <<>> THEN OfCte(srcCtes[1])
        ELSE IF ~acc.cteSuggestionsAdded /\ config.supplied
        THEN OfTable(FirstWhere(getAllTables(config),
               LAMBDA tbl : \/ toUpperCase(tbl.name) = ShortName(fromTableName)
                            \/ SchemaOf(tbl) # "" /\ FullName(tbl) = fromTableName))
        ELSE acc
  IN  Step(FirstWhere(parsedCTEs,
             LAMBDA srcCte : \/ srcCte.name = ShortName(fromTableName)
                             \/ srcCte.name = fromTableName))

\* line 2310: the loop over fromTables[i..]
RECURSIVE fromTableLoop(_, _, _, _, _)
fromTableLoop(fullText, fromTables, i, acc, env) ==
  IF i > Len(fromTables) THEN acc
  ELSE fromTableLoop(fullText, fromTables, i + 1,
         fromTableStep(fullText, acc, fromTables[i], env.parsedCTEs, env.config), env)

\* lines 2291-2459: what the branch of the CTE the cursor is in returns, as a
\* sequence of at most one list of suggestions
insideCteSuggestions(fullText, cursorOffset, insideCTE, context, parsedCTEs, config) ==
  LET Done(acc) ==
        IF ~acc.cteSuggestionsAdded THEN <<>>
        ELSE <<acc.suggestions
               \o Map(insideCTE.fromTables,
                      LAMBDA tblName :
                        Suggestion(ShortName(tblName), "Struct", "Table/CTE", "1"))>>
  IN  IF /\ \/ columnContextBefore(Substring(fullText, insideCTE.bodyStartOffset,
                                             cursorOffset))
            \/ context.context = "column"
         /\ Len(insideCTE.fromTables) > 0
      THEN Done(fromTableLoop(fullText, insideCTE.fromTables, 1,
                  [suggestions |-> <<>>, cteSuggestionsAdded |-> FALSE],
                  [parsedCTEs |-> parsedCTEs, config |-> config]))
      ELSE <<>>

\* lines 2540-2543 and 2604-2607: col.dataType || 'Column', then the
\* description when there is one
columnDetail(col) ==
  (IF Prop(col, "dataType") # "" THEN col.dataType ELSE "Column")
  \o (IF Prop(col, "description") # "" THEN " - " \o col.description ELSE "")

\* lines 2473-2501: the CTEs and the tables of the schema
tableContextSuggestions(parsedCTEs, allTables, config) ==
  Map(parsedCTEs, LAMBDA cte : Suggestion(cte.name, "Struct", "CTE", "0"))
  \o Map(allTables,
         LAMBDA tbl :
           Suggestion(IF "showSchemaPrefix" \in DOMAIN config /\ config.showSchemaPrefix
                         /\ SchemaOf(tbl) # ""
                      THEN tbl.schema \o "." \o tbl.name ELSE tbl.name,
                      "Class",
                      IF Prop(tbl, "type") # "" THEN tbl.type ELSE "Table",
                      "0"))

\* lines 2509-2575: what the branch of a qualifier before the cursor
\* returns, as a sequence of at most one list of suggestions
tableAliasSuggestions(context, parsedCTEs, allTables, config) ==
  LET Schemas(tablesInSchema) ==
        IF tablesInSchema = <<>> THEN <<>>
        ELSE <<Map(tablesInSchema,
                   LAMBDA tbl : Suggestion(tbl.name, "Class",
                                  IF Prop(tbl, "type") # "" THEN tbl.type ELSE "Table",
                                  "0"))>>
      OfTable(columns) ==
        IF Len(columns) > 0
        THEN <<Map(columns,
                   LAMBDA col : Suggestion(col.name, "Field", columnDetail(col), "0"))>>
        ELSE Schemas(Filter(allTables,
               LAMBDA tbl : SchemaOf(tbl) # ""
                            /\ toUpperCase(tbl.schema) = context.tableAlias))
      OfCte(ctes) ==
        IF ctes # <<>>
        THEN <<Map(ctes[1].columns,
                   LAMBDA col :
                     Suggestion(col.name, "Field",
                       IF Prop(col, "expression") # ""
                       THEN "Computed: " \o Substring(col.expression, 0, 30)
                            \o (IF Len(col.expression) > 30 THEN "..." ELSE "")
                       ELSE "CTE column",
                       "0"))>>
        ELSE OfTable(getColumnsForTable(
               IF context.tableAlias \in DOMAIN context.aliasToTable
               THEN context.aliasToTable[context.tableAlias] ELSE context.tableAlias,
               config))
  IN  OfCte(FirstWhere(parsedCTEs, LAMBDA cte : cte.name = context.tableAlias))

\* lines 2578-2619: the columns of one referenced table, those of the CTE of
\* this name or else those of the table of the schema
referencedColumnSuggestions(tableName, parsedCTEs, config) ==
  LET Of(ctes) ==
        IF ctes # <<>> THEN cteColumnSuggestions(ctes[1])
        ELSE Map(getColumnsForTable(tableName, config),
               LAMBDA col : Suggestion(col.name, "Field",
                              tableName \o " | " \o columnDetail(col), "0"))
  IN  Of(FirstWhere(parsedCTEs, LAMBDA cte : cte.name = toUpperCase(tableName)))

\* lines 2578-2644: the columns of the referenced tables, then the CTEs and
\* the tables of the schema
columnContextSuggestions(context, parsedCTEs, allTables, config) ==
  Flatten(Map(context.referencedTables,
              LAMBDA tableName : referencedColumnSuggestions(tableName, parsedCTEs, config)))
  \o Map(parsedCTEs, LAMBDA cte : Suggestion(cte.name, "Struct", "CTE", "1"))
  \o Map(allTables,
         LAMBDA tbl : Suggestion(tbl.name, "Class",
                        IF Prop(tbl, "type") # "" THEN tbl.type ELSE "Table", "1"))

\* lines 86-97: the arrays imported from ./db2sql.keywords, a file that is
\* not part of the sources at hand; each is given by entries of the kind its
\* name announces
Catalogs ==
  [SQL_KEYWORDS |-> <<"SELECT", "FROM">>,
   DB2_IBM_I_KEYWORDS |-> <<"RRN">>,
   IBM_I_75_KEYWORDS |-> <<"BOOLEAN">>,
   IBM_I_74_KEYWORDS |-> <<"LISTAGG">>,
   IBM_I_73_KEYWORDS |-> <<"OFFSET">>,
   QSYS2_SERVICES |-> <<"QSYS2.ACTIVE_JOB_INFO">>,
   SYSIBM_CATALOG |-> <<"SYSIBM.SYSTABLES">>,
   IBM_I_SYSTEM_OBJECTS |-> <<"*LIBL">>,
   DB2_FUNCTIONS |-> <<"COUNT">>,
   DB2_DATA_TYPES |-> <<"INTEGER">>]

\* lines 1704-1955: the label and the insertText of the first and of the last
\* entry of the array
SQL_SNIPPETS ==
  <<[label |-> "~select-statement",
     insertText |-> "SELECT ${1:columns}\nFROM ${2:table}\nWHERE ${3:condition}"],
    [label |-> "DATA_AREA_INFO",
     insertText |-> "SELECT * FROM QSYS2.DATA_AREA_INFO WHERE DATA_AREA_LIBRARY = '${1:LIBRARY}'"]>>

\* lines 2649-2764: the suggestions added whatever the context
staticSuggestions ==
  Map(Catalogs.SQL_KEYWORDS,
      LAMBDA keyword : Suggestion(keyword, "Keyword", "SQL Keyword", "2"))
  \o Map(Catalogs.DB2_IBM_I_KEYWORDS,
         LAMBDA keyword : Suggestion(keyword, "Keyword", "IBM i Keyword", "2"))
  \o Map(Catalogs.IBM_I_75_KEYWORDS \o Catalogs.IBM_I_74_KEYWORDS
           \o Catalogs.IBM_I_73_KEYWORDS,
         LAMBDA keyword : Suggestion(keyword, "Keyword", "IBM i Reserved Word", "2"))
  \o Map(Catalogs.QSYS2_SERVICES,
         LAMBDA service : Suggestion(service, "Module", "QSYS2 Service", "3"))
  \o Map(Catalogs.SYSIBM_CATALOG,
         LAMBDA catalog : Suggestion(catalog, "Module", "SYSIBM Catalog", "3"))
  \o Map(Catalogs.IBM_I_SYSTEM_OBJECTS,
         LAMBDA obj : Suggestion(obj, "Constant", "IBM i System Object", "3"))
  \o Map(Catalogs.DB2_FUNCTIONS,
         LAMBDA func : [label |-> func, kind |-> "Function",
                        insertText |-> func \o "($0)", detail |-> "DB2 Function",
                        sortText |-> "4" \o func])
  \o Map(Catalogs.DB2_DATA_TYPES,
         LAMBDA type : Suggestion(type, "TypeParameter", "DB2 Data Type", "5"))
  \o Map(SQL_SNIPPETS,
         LAMBDA snippet : [label |-> snippet.label, kind |-> "Snippet",
                           insertText |-> snippet.insertText, detail |-> "Snippet",
                           sortText |-> "6" \o snippet.label])

\* lines 2463-2647: what the branch of a supplied schema returns (returned),
\* or the suggestions it leaves for the catalogs to follow
schemaSuggestions(context, parsedCTEs, allTables, config) ==
  LET Early(returned) ==
        IF returned # <<>> THEN [returned |-> TRUE, suggestions |-> returned[1]]
        ELSE [returned |-> FALSE, suggestions |-> <<>>]
  IN  IF context.context = "table"
      THEN [returned |-> TRUE,
            suggestions |-> tableContextSuggestions(parsedCTEs, allTables, config)]
      ELSE IF context.context = "column" /\ Prop(context, "tableAlias") # ""
      THEN Early(tableAliasSuggestions(context, parsedCTEs, allTables, config))
      ELSE IF context.context = "column"
      THEN [returned |-> FALSE,
            suggestions |-> columnContextSuggestions(context, parsedCTEs, allTables, config)]
      ELSE [returned |-> FALSE, suggestions |-> <<>>]

\* lines 2209-2216: the first subquery whose body holds the cursor, if any
insideCTEForCompletion(cursorOffsetForCTE, parsedCTEsForCompletion) ==
  FirstWhere(parsedCTEsForCompletion,
    LAMBDA cte : /\ cursorOffsetForCTE >= cte.bodyStartOffset
                 /\ cursorOffsetForCTE <= cte.bodyEndOffset)

\* lines 2221-2228: the largest endOffset, 0 when there is no subquery
lastCTEEndOffsetOf(parsedCTEsForCompletion) ==
  Max({0} \cup {parsedCTEsForCompletion[i].endOffset :
                  i \in DOMAIN parsedCTEsForCompletion})

\* lines 2220-2233
inMainQueryAfterCTEs(cursorOffsetForCTE, parsedCTEsForCompletion) ==
  /\ Len(parsedCTEsForCompletion) > 0
  /\ cursorOffsetForCTE > lastCTEEndOffsetOf(parsedCTEsForCompletion)

\* lines 2186-2766: the suggestions when the cursor is in no comment
suggestionsAt(fullText, cursorOffset, context, parsedCTEs, config) ==
  LET Catalogued(fromSchema) ==
        IF fromSchema.returned THEN fromSchema.suggestions
        ELSE fromSchema.suggestions \o staticSuggestions
      Schema(inCte) ==
        IF inCte # <<>> THEN inCte[1]
        ELSE Catalogued(IF config.supplied
                        THEN schemaSuggestions(context, parsedCTEs,
                                               getAllTables(config), config)
                        ELSE [returned |-> FALSE, suggestions |-> <<>>])
      Inside(inMain, insideCTE) ==
        IF inMain # <<>> THEN inMain[1]
        ELSE Schema(IF insideCTE # <<>> /\ Prop(context, "tableAlias") = ""
                    THEN insideCteSuggestions(fullText, cursorOffset, insideCTE[1],
                                              context, parsedCTEs, config)
                    ELSE <<>>)
      Main(lastCTEEndOffset) ==
        Inside(IF inMainQueryAfterCTEs(cursorOffset, parsedCTEs)
                  /\ Prop(context, "tableAlias") = ""
               THEN mainQuerySuggestions(fullText, cursorOffset, lastCTEEndOffset,
                                         parsedCTEs)
               ELSE <<>>,
               insideCTEForCompletion(cursorOffset, parsedCTEs))
  IN  Main(lastCTEEndOffsetOf(parsedCTEs))

\* lines 2138-2767
provideCompletionItems(fullText, position, config) ==
  IF lineCommentBefore(Substring(fullText,
                                 LastIndexOf(Substring(fullText, 0, position), "\n") + 1,
                                 position))
  THEN <<>>
  ELSE IF blockCommentDepthOf(Substring(fullText, 0, position)) > 0 THEN <<>>
  ELSE suggestionsAt(fullText, position, getSQLContext(fullText, position),
                     parseCTEs(fullText), config)

(***************************************************************************)
(* createDB2SQLHoverProvider (lines 1207-1660).  The model and the         *)
(* position are given as the document text (lines ended by a newline) and  *)
(* the offset of the cursor in it.  provideHover gives a sequence: empty   *)
(* for null, else the one hover, with its contents and its range.          *)
(***************************************************************************)
\* the grave accent, which no string of this notation can hold, is written as
\* a form feed
GraveAccent == "\f"

\* lines 44-45: the characters the second alternative of wordPattern excludes
WordSeparators ==
  {GraveAccent, "~", "!", "@", "#", "%", "^", "&", "*", "(", ")", "-", "=", "+", "[", "{",
   "]", "}", "\\", "|", ";", ":", "'", "\"", ",", ".", "<", ">", "/", "?"}
  \cup WsChars

\* the end of the run of \d, of \w, of characters that are no separators,
\* that starts at o
RECURSIVE SkipDigits(_, _)
SkipDigits(x, o) == IF Ch(x, o) \in Digits THEN SkipDigits(x, o + 1) ELSE o

RECURSIVE SkipWordChars(_, _)
SkipWordChars(x, o) == IF Ch(x, o) \in WordChars THEN SkipWordChars(x, o + 1) ELSE o

RECURSIVE SkipNonSeparators(_, _)
SkipNonSeparators(x, o) ==
  IF o < Len(x) /\ Ch(x, o) \notin WordSeparators THEN SkipNonSeparators(x, o + 1) ELSE o

\* lines 44-45: /(-?\d*\.\d\w*)|([^separators]+)/g anchored at p
wordPattern(x, p) ==
  LET Found(e) == [index |-> p, end |-> e]
      Other(e) == IF e > p THEN Found(e) ELSE NoMatch
      Number(d) ==
        IF Ch(x, d) = "." /\ Ch(x, d + 1) \in Digits THEN Found(SkipWordChars(x, d + 2))
        ELSE Other(SkipNonSeparators(x, p))
  IN  Number(SkipDigits(x, IF Ch(x, p) = "-" THEN p + 1 ELSE p))

\* line 1219: model.getWordAtPosition(position) on the line of the position:
\* the first word of the line that starts at or before the column and ends
\* at or after it, as a sequence of at most one word
getWordAtPosition(lineContent, column) ==
  Map(FirstWhere(ExecAll(Cands(lineContent, wordPattern), 0),
                 LAMBDA m : m.index <= column - 1 /\ column - 1 <= m.end),
      LAMBDA m : [word |-> Substring(lineContent, m.index, m.end),
                  startColumn |-> m.index + 1, endColumn |-> m.end + 1])

\* line 1223: model.getLineContent(lineNumber), for the line that holds offset
getLineContent(fullText, offset) ==
  LET From(lineStart, lineEnd) ==
        Substring(fullText, lineStart, IF lineEnd < 0 THEN Len(fullText) ELSE lineEnd)
      Line(lineStart) == From(lineStart, IndexOf(fullText, "\n", lineStart))
  IN  Line(offset - (getPositionFromOffset(fullText, offset).column - 1))

\* the start of the run of [A-Za-z0-9_#@$] that ends at e
RECURSIVE SkipBackId(_, _)
SkipBackId(x, e) == IF e > 0 /\ Ch(x, e - 1) \in IdChars THEN SkipBackId(x, e - 1) ELSE e

\* line 1230: beforeWord.match(/([A-Za-z0-9_#@$]+)\.\s*$/)
dotBeforeRegex(beforeWord) ==
  LET Found(b, dot) ==
        IF b < dot THEN [index |-> b, end |-> Len(beforeWord),
                         g1 |-> Substring(beforeWord, b, dot)]
        ELSE NoMatch
      Dot(e) ==
        IF e > 0 /\ Ch(beforeWord, e - 1) = "." THEN Found(SkipBackId(beforeWord, e - 1), e - 1)
        ELSE NoMatch
  IN  Dot(Len(TrimEnd(beforeWord)))

\* line 1335: afterWord.match(/^\s*\./)
dotAfterRegex(afterWord) == Ch(afterWord, SkipWs(afterWord, 0)) = "."

\* the hover returned for a word of a line (lines 1270-1278 and the like)
HoverOf(lineNumber, word, markdown) ==
  [contents |-> <<[value |-> markdown]>>,
   range |-> [startLineNumber |-> lineNumber, startColumn |-> word.startColumn,
              endLineNumber |-> lineNumber, endColumn |-> word.endColumn]]

\* lines 1258-1268, 1442-1452 and 1560-1570: the text about a column of a CTE
cteColMarkdownOf(col, cte) ==
  "**" \o col.name \o "**\n\n" \o "**From CTE:** " \o cte.name \o "\n\n"
  \o (IF Prop(col, "expression") # ""
      THEN "**Expression:**\n\f\f\fsql\n" \o col.expression \o "\n\f\f\f\n\n"
      ELSE IF Prop(col, "sourceColumn") # ""
      THEN "_Column reference_"
           \o (IF Prop(col, "sourceTable") # "" THEN " from " \o col.sourceTable ELSE "")
           \o "\n\n"
      ELSE "")

\* lines 1300-1314, 1476-1490 and 1625-1639: the text about a column of a table
colMarkdownOf(col, tbl) ==
  "**" \o col.name \o "**"
  \o (IF Prop(col, "dataType") # "" THEN " \f" \o col.dataType \o "\f" ELSE "")
  \o "\n\n"
  \o "**Table:** " \o (IF SchemaOf(tbl) # "" THEN tbl.schema \o "." ELSE "") \o tbl.name
  \o "\n\n"
  \o (IF Prop(col, "description") # "" THEN col.description \o "\n\n" ELSE "")
  \o (IF "nullable" \in DOMAIN col
      THEN (IF col.nullable THEN "_Nullable_" ELSE "_Not Null_") ELSE "")
  \o (IF "isPrimaryKey" \in DOMAIN col /\ col.isPrimaryKey THEN " | _Primary Key_" ELSE "")

\* lines 1361-1379: the text about a table
tableMarkdownOf(tbl) ==
  "**" \o (IF SchemaOf(tbl) # "" THEN tbl.schema \o "." ELSE "") \o tbl.name \o "**"
  \o (IF Prop(tbl, "type") # "" THEN " _(" \o tbl.type \o ")_" ELSE "")
  \o "\n\n"
  \o (IF Prop(tbl, "description") # "" THEN tbl.description \o "\n\n" ELSE "")
  \o (IF HasColumns(tbl) /\ Len(tbl.columns) > 0
      THEN "**Columns:** " \o ToString(Len(tbl.columns)) \o "\n\n"
           \o Join(Map(SubSeq(tbl.columns, 1, Min({10, Len(tbl.columns)})),
                       LAMBDA c : "- \f" \o c.name \o "\f"
                                  \o (IF Prop(c, "dataType") # ""
                                      THEN " " \o c.dataType ELSE "")),
                   "\n")
           \o (IF Len(tbl.columns) > 10
               THEN "\n- _... and " \o ToString(Len(tbl.columns) - 10) \o " more_"
               ELSE "")
      ELSE "")

\* lines 1519-1530: the text about a CTE
cteMarkdownOf(cte) ==
  "**" \o cte.name \o "** _(CTE)_\n\n" \o "_Common Table Expression_\n\n"
  \o (IF Len(cte.columns) > 0
      THEN "**Columns:**\n\n"
           \o Join(Map(cte.columns,
                       LAMBDA col :
                         "- \f" \o col.name \o "\f"
                         \o (IF Prop(col, "expression") # ""
                             THEN " = " \o Substring(col.expression, 0, 50)
                                  \o (IF Len(col.expression) > 50 THEN "..." ELSE "")
                             ELSE "")
                         \o "\n"),
                   "")
      ELSE "")

\* lines 1254-1280, 1438-1464 and 1556-1582: the hover of the first column of
\* the CTE that has the name of the word, if any
cteColumnHover(cte, wordText, lineNumber, word) ==
  Map(FirstWhere(cte.columns, LAMBDA col : col.name = wordText),
      LAMBDA col : HoverOf(lineNumber, word, cteColMarkdownOf(col, cte)))

\* lines 1294-1328, 1471-1503 and 1620-1653: the hover of the first column of
\* the table that has the name of the word, if any
tableColumnHover(tbl, wordText, lineNumber, word) ==
  IF ~HasColumns(tbl) THEN <<>>
  ELSE Map(FirstWhere(tbl.columns, LAMBDA col : toUpperCase(col.name) = wordText),
           LAMBDA col : HoverOf(lineNumber, word, colMarkdownOf(col, tbl)))

\* lines 1236-1246 and 1339-1349: the name the alias stands for in the text,
\* or the name itself
resolvedTableNameOf(fullText, name) ==
  LET Resolved(aliasMatch) ==
        IF aliasMatch.index >= 0 THEN toUpperCase(aliasMatch.g1) ELSE name
  IN  Resolved(aliasMatchOf(fullText, name))

\* lines 1231-1332: the word follows a qualifier and a dot
qualifiedHover(fullText, tableOrAlias, wordText, lineNumber, word, allTables) ==
  Bind(resolvedTableNameOf(fullText, tableOrAlias), LAMBDA actualTableName :
    Flatten(Map(FirstWhere(parseCTEs(fullText),
                  LAMBDA cte : cte.name = tableOrAlias \/ cte.name = actualTableName),
                LAMBDA cte : cteColumnHover(cte, wordText, lineNumber, word)))
    \o Flatten(Map(FirstWhere(allTables,
                     LAMBDA tbl :
                       \/ FullName(tbl) = actualTableName
                       \/ toUpperCase(tbl.name) = actualTableName
                       \/ (IndexOf(actualTableName, ".", 0) >= 0
                           /\ ShortName(actualTableName) = toUpperCase(tbl.name))),
                   LAMBDA tbl : tableColumnHover(tbl, wordText, lineNumber, word))))

\* lines 1336-1393: the word is the name or an alias of a table
tableHover(fullText, wordText, lineNumber, word, allTables) ==
  Bind(resolvedTableNameOf(fullText, wordText), LAMBDA resolvedTableName :
    Map(FirstWhere(allTables,
          LAMBDA tbl :
            \/ toUpperCase(tbl.name) = wordText
            \/ toUpperCase(tbl.name) = resolvedTableName
            \/ FullName(tbl) = resolvedTableName
            \/ (IndexOf(resolvedTableName, ".", 0) >= 0
                /\ ShortName(resolvedTableName) = toUpperCase(tbl.name))),
        LAMBDA tbl : HoverOf(lineNumber, word, tableMarkdownOf(tbl))))

\* lines 1423-1508: one FROM table of the CTE the word stands in
fromTableHover(fromTableName, wordText, lineNumber, word, allTables, parsedCTEs) ==
  Bind(FirstWhere(parsedCTEs,
         LAMBDA cte : cte.name = ShortName(fromTableName) \/ cte.name = fromTableName),
    LAMBDA sourceCTE :
      IF sourceCTE # <<>> THEN cteColumnHover(sourceCTE[1], wordText, lineNumber, word)
      ELSE Flatten(Map(FirstWhere(allTables,
                         LAMBDA tbl : \/ FullName(tbl) = fromTableName
                                      \/ toUpperCase(tbl.name) = ShortName(fromTableName)),
                       LAMBDA tbl : tableColumnHover(tbl, wordText, lineNumber, word))))

\* line 1547: /(?:FROM|JOIN)\s+([A-Za-z_#@$][A-Za-z0-9_#@$]*)/gi anchored at p
cteRefRegex(x, p) ==
  LET Found(w, e) == [index |-> p, end |-> e, g1 |-> Substring(x, w, e)]
      AfterWs(w) ==
        IF w > p + 4 /\ Ch(x, w) \in IdStartChars THEN Found(w, SkipId(x, w)) ELSE NoMatch
  IN  IF LitAtI(x, p, "FROM") \/ LitAtI(x, p, "JOIN") THEN AfterWs(SkipWs(x, p + 4))
      ELSE NoMatch

\* lines 1514-1543: the word is the name of a CTE
cteNameHover(wordText, lineNumber, word, parsedCTEs) ==
  Map(FirstWhere(parsedCTEs, LAMBDA cte : cte.name = wordText),
      LAMBDA cte : HoverOf(lineNumber, word, cteMarkdownOf(cte)))

\* lines 1546-1586: the word is a column of a CTE that a FROM or JOIN of the
\* text names
cteRefHover(fullText, wordText, lineNumber, word, parsedCTEs) ==
  Flatten(Map(ExecAll(Cands(fullText, cteRefRegex), 0),
              LAMBDA cteRefMatch :
                Flatten(Map(Filter(parsedCTEs,
                              LAMBDA cte : cte.name = toUpperCase(cteRefMatch.g1)),
                            LAMBDA cte : cteColumnHover(cte, wordText, lineNumber, word)))))

\* lines 1589-1615: the tables of the schema that a FROM or JOIN of the text
\* names, the CTEs left out
referencedTablesOf(fullText, allTables, parsedCTEs) ==
  Flatten(Map(Filter(ExecAll(Cands(fullText, tableRefRegex), 0),
                LAMBDA refMatch :
                  ~\E ci \in DOMAIN parsedCTEs :
                     \/ parsedCTEs[ci].name = toUpperCase(refMatch.g1)
                     \/ parsedCTEs[ci].name = ShortName(toUpperCase(refMatch.g1))),
              LAMBDA refMatch :
                FirstWhere(allTables,
                  LAMBDA tbl : \/ FullName(tbl) = toUpperCase(refMatch.g1)
                               \/ toUpperCase(tbl.name) = ShortName(toUpperCase(refMatch.g1)))))

\* lines 1617-1654: the word is a column of a referenced table
referencedColumnHover(fullText, wordText, lineNumber, word, allTables, parsedCTEs) ==
  Flatten(Map(referencedTablesOf(fullText, allTables, parsedCTEs),
              LAMBDA tbl : tableColumnHover(tbl, wordText, lineNumber, word)))

\* lines 1397-1655: the word stands alone; cursorOffset is the offset of the
\* word (lines 1404-1408)
unqualifiedHover(fullText, cursorOffset, wordText, lineNumber, word, allTables, parsedCTEs) ==
  Bind(FirstWhere(parsedCTEs,
         LAMBDA cte : cursorOffset >= cte.bodyStartOffset /\ cursorOffset <= cte.bodyEndOffset),
    LAMBDA insideCTE :
      (IF insideCTE # <<>>
       THEN Flatten(Map(insideCTE[1].fromTables,
                        LAMBDA fromTableName :
                          fromTableHover(fromTableName, wordText, lineNumber, word,
                                         allTables, parsedCTEs)))
       ELSE cteNameHover(wordText, lineNumber, word, parsedCTEs)
            \o cteRefHover(fullText, wordText, lineNumber, word, parsedCTEs))
      \o referencedColumnHover(fullText, wordText, lineNumber, word, allTables, parsedCTEs))

\* lines 1222-1657: the branches in the order of the code, each giving the
\* hover it returns, if any; the first one is the result
hoverOfWord(fullText, lineStart, lineContent, lineNumber, word, allTables) ==
  Bind(toUpperCase(word.word), LAMBDA wordText :
    Bind(dotBeforeRegex(Substring(lineContent, 0, word.startColumn - 1)), LAMBDA dotBefore :
      Bind(dotAfterRegex(Substring(lineContent, word.endColumn - 1, Len(lineContent))),
        LAMBDA dotAfter :
          (IF dotBefore.index >= 0
           THEN qualifiedHover(fullText, toUpperCase(dotBefore.g1), wordText, lineNumber,
                               word, allTables)
           ELSE <<>>)
          \o (IF dotAfter \/ dotBefore.index < 0
              THEN tableHover(fullText, wordText, lineNumber, word, allTables)
              ELSE <<>>)
          \o (IF dotBefore.index < 0 /\ ~dotAfter
              THEN unqualifiedHover(fullText, lineStart + word.startColumn - 1, wordText,
                                    lineNumber, word, allTables, parseCTEs(fullText))
              ELSE <<>>))))

\* lines 1212-1658: provideHover(model, position)
provideHover(fullText, position, config) ==
  IF ~config.supplied THEN <<>>
  ELSE Bind(getPositionFromOffset(fullText, position), LAMBDA pos :
         Bind(getLineContent(fullText, position), LAMBDA lineContent :
           Bind(getWordAtPosition(lineContent, pos.column), LAMBDA word :
             IF word = <<>> THEN <<>>
             ELSE FirstWhere(hoverOfWord(fullText, position - (pos.column - 1),
                                         lineContent, pos.line, word[1],
                                         getAllTablesForValidation(config)),
                             LAMBDA hover : TRUE))))

(***************************************************************************)
(* The editor: a document is opened, keys are typed at the cursor, and the *)
(* operations of the language support are applied to the text.             *)
(***************************************************************************)
\* the keys typed after a document is opened, and how many of them
Keys == {"'", ")", ",", "."}
MaxTyped == 1

\* the schema of the examples: one table EMPLOYEES(EMP_ID, NAME)
EmployeesTable ==
  [name |-> "EMPLOYEES", columns |-> <<[name |-> "EMP_ID"], [name |-> "NAME"]>>]
DeptsTable == [name |-> "DEPTS", columns |-> <<[name |-> "DEPT_ID"]>>]

ExampleSchema == [supplied |-> TRUE, tables |-> <<EmployeesTable>>]
\* a schema configuration that lists nothing
EmptySchema == [supplied |-> TRUE]
TwoTableSchema == [supplied |-> TRUE, tables |-> <<EmployeesTable, DeptsTable>>]
\* the same tables under a named schema
QualifiedSchema ==
  [supplied |-> TRUE,
   schemas |-> <<[name |-> "HR", tables |-> <<EmployeesTable, DeptsTable>>]>>]

\* the texts of at most n keys
RECURSIVE TextsOver(_, _)
TextsOver(keys, n) ==
  IF n = 0 THEN {""}
  ELSE LET S == TextsOver(keys, n - 1) IN S \cup {s \o k : s \in S, k \in keys}

\* the texts made of one alternative of every slot, from slot i on
RECURSIVE Fill(_, _)
Fill(slots, i) ==
  IF i > Len(slots) THEN {""}
  ELSE {a \o r : a \in slots[i], r \in Fill(slots, i + 1)}

NoResult == [op |-> "none"]

\* index.ts, line 8
DB2SQL_LANGUAGE_ID == "db2sql"

\* a monaco instance before registerDB2SQL is called: it knows its own
\* languages (one stands for them) and has no provider for db2sql
FreshMonaco ==
  [languages |-> <<[id |-> "plaintext"]>>, tokensProviders |-> <<>>,
   languageConfigurations |-> <<>>, completionProviders |-> <<>>,
   hoverProviders |-> <<>>]

\* nothing is registered, no editor is mounted
NotMounted ==
  /\ monaco = FreshMonaco
  /\ calls = 0
  /\ markers = <<>>
  /\ validate = <<>>
  /\ validateTimeout = FALSE

\* a document is open, the cursor at its end, nothing typed or computed yet
Opened(documents, configs) ==
  /\ text \in documents
  /\ cursor = Len(text)
  /\ typed = 0
  /\ schemaConfig \in configs
  /\ result = NoResult
  /\ NotMounted

\* a key is typed at the cursor; once the editor is mounted the change of the
\* content restarts the timer of the validation
Type ==
  /\ typed < MaxTyped
  /\ \E k \in Keys :
       /\ text' = Substring(text, 0, cursor) \o k \o Substring(text, cursor, Len(text))
       /\ cursor' = cursor + Len(k)
  /\ typed' = typed + 1
  /\ result' = NoResult
  /\ validateTimeout' = (validate # <<>>)
  /\ UNCHANGED <<schemaConfig, monaco, calls, markers, validate>>

\* lines 115-999: validateDB2SQL(text, schemaConfig)
Validate ==
  /\ result' = [op |-> "validateDB2SQL", value |-> validateDB2SQL(text, schemaConfig)]
  /\ UNCHANGED <<text, cursor, typed, schemaConfig>>
  /\ UNCHANGED <<monaco, calls, markers, validate, validateTimeout>>

\* lines 1028-1155: parseCTEs(text)
ParseSubqueries ==
  /\ result' = [op |-> "parseCTEs", value |-> parseCTEs(text)]
  /\ UNCHANGED <<text, cursor, typed, schemaConfig>>
  /\ UNCHANGED <<monaco, calls, markers, validate, validateTimeout>>

\* lines 126-140: stripCommentsAndStrings(text)
Sanitize ==
  /\ result' = [op |-> "stripCommentsAndStrings",
                value |-> stripCommentsAndStrings(text)]
  /\ UNCHANGED <<text, cursor, typed, schemaConfig>>
  /\ UNCHANGED <<monaco, calls, markers, validate, validateTimeout>>

\* lines 1957-2072: getSQLContext(model, position)
Classify ==
  /\ result' = [op |-> "getSQLContext", value |-> getSQLContext(text, cursor)]
  /\ UNCHANGED <<text, cursor, typed, schemaConfig>>
  /\ UNCHANGED <<monaco, calls, markers, validate, validateTimeout>>

\* lines 2138-2767: provideCompletionItems(model, position)
Complete ==
  /\ result' = [op |-> "provideCompletionItems",
                value |-> provideCompletionItems(text, cursor, schemaConfig)]
  /\ UNCHANGED <<text, cursor, typed, schemaConfig>>
  /\ UNCHANGED <<monaco, calls, markers, validate, validateTimeout>>

\* lines 1190-1196 writing the name of the schema into the tables of the
\* configuration instead of into copies of them
HoverStampingTables ==
  /\ result' = [op |-> "provideHover", value |-> provideHover(text, cursor, schemaConfig)]
  /\ schemaConfig' =
       (IF "schemas" \in DOMAIN schemaConfig
        THEN [schemaConfig EXCEPT !.schemas =
                [j \in DOMAIN schemaConfig.schemas |->
                   [schemaConfig.schemas[j] EXCEPT
                      !.tables = SchemaTables(schemaConfig.schemas[j])]]]
        ELSE schemaConfig)
  /\ UNCHANGED <<text, cursor, typed>>
  /\ UNCHANGED <<monaco, calls, markers, validate, validateTimeout>>

\* lines 1212-1658: provideHover(model, position)
Hover ==
  /\ result' = [op |-> "provideHover", value |-> provideHover(text, cursor, schemaConfig)]
  /\ UNCHANGED <<text, cursor, typed, schemaConfig>>
  /\ UNCHANGED <<monaco, calls, markers, validate, validateTimeout>>

\* index.ts, line 99: options?.schema, the options being given as a sequence
\* of at most one record
OptionsSchema(options) ==
  IF options # <<>> /\ "schema" \in DOMAIN options[1] THEN options[1].schema ELSE NoSchema

\* index.ts, lines 70-100, without the check of lines 59-68
registerDB2SQLUnchecked(m, options) ==
  [m EXCEPT
     !.languages = Append(@, [id |-> DB2SQL_LANGUAGE_ID,
                              extensions |-> <<".sql", ".db2">>,
                              aliases |-> <<"DB2 SQL", "db2sql", "DB2", "db2">>,
                              mimetypes |-> <<"text/x-db2sql">>]),
     !.tokensProviders = Append(@, [languageId |-> DB2SQL_LANGUAGE_ID,
                                    provider |-> "db2sqlMonarchLanguage"]),
     !.languageConfigurations = Append(@, [languageId |-> DB2SQL_LANGUAGE_ID,
                                           configuration |-> "db2sqlLanguageConfiguration"]),
     !.completionProviders = Append(@, [languageId |-> DB2SQL_LANGUAGE_ID,
                                        schemaConfig |-> OptionsSchema(options)])]

\* index.ts, lines 54-103: registerDB2SQL(monaco, options), giving the monaco
\* instance after the call
registerDB2SQL(m, options) ==
  IF \E i \in DOMAIN m.languages : m.languages[i].id = DB2SQL_LANGUAGE_ID
  THEN m
  ELSE [m EXCEPT
          !.languages = Append(@, [id |-> DB2SQL_LANGUAGE_ID,
                                   extensions |-> <<".sql", ".db2">>,
                                   aliases |-> <<"DB2 SQL", "db2sql", "DB2", "db2">>,
                                   mimetypes |-> <<"text/x-db2sql">>]),
          !.tokensProviders = Append(@, [languageId |-> DB2SQL_LANGUAGE_ID,
                                         provider |-> "db2sqlMonarchLanguage"]),
          !.languageConfigurations =
             Append(@, [languageId |-> DB2SQL_LANGUAGE_ID,
                        configuration |-> "db2sqlLanguageConfiguration"]),
          !.completionProviders = Append(@, [languageId |-> DB2SQL_LANGUAGE_ID,
                                             schemaConfig |-> OptionsSchema(options)])]

\* the options registerDB2SQL is called with: none, or a schema
RegisterOptions == {<<>>, <<[schema |-> ExampleSchema]>>, <<[schema |-> TwoTableSchema]>>}
MaxCalls == 2

\* a call of registerDB2SQL on the monaco instance (editorWillMount of the
\* example, or any other caller)
Register ==
  /\ calls < MaxCalls
  /\ \E options \in RegisterOptions : monaco' = registerDB2SQL(monaco, options)
  /\ calls' = calls + 1
  /\ UNCHANGED <<text, cursor, typed, schemaConfig, result>>
  /\ UNCHANGED <<markers, validate, validateTimeout>>

\* lines 1673-1687 with every severity mapped to Error
markerSeverityError(severity) == "Error"

\* lines 1673-1687: the marker severity of a diagnostic severity
markerSeverity(severity) ==
  IF severity = "error" THEN "Error"
  ELSE IF severity = "warning" THEN "Warning"
  ELSE IF severity = "info" THEN "Info"
  ELSE "Hint"

\* lines 1688-1695
markerOf(d) ==
  [startLineNumber |-> d.startLineNumber, startColumn |-> d.startColumn,
   endLineNumber |-> d.endLineNumber, endColumn |-> d.endColumn,
   message |-> d.message, severity |-> markerSeverity(d.severity)]

\* lines 1665-1700: the validator keeps the schema it was created with
createDB2SQLValidator(config) == [schemaConfig |-> config]

\* lines 1669-1699: the markers the validator sets on a model whose value is
\* modelValue (setModelMarkers puts them in place of the markers of the owner)
validatorMarkers(validator, modelValue) ==
  Map(validateDB2SQL(modelValue, validator.schemaConfig), markerOf)

\* the example, lines 381-405: the validator is created and applied to the
\* model, the content listener is attached, the hover provider is registered
EditorDidMount ==
  /\ validate = <<>>
  /\ validate' = <<createDB2SQLValidator(schemaConfig)>>
  /\ markers' = validatorMarkers(createDB2SQLValidator(schemaConfig), text)
  /\ monaco' = [monaco EXCEPT !.hoverProviders =
                   Append(@, [languageId |-> "db2sql", schemaConfig |-> schemaConfig])]
  /\ UNCHANGED <<text, cursor, typed, schemaConfig, result>>
  /\ UNCHANGED <<calls, validateTimeout>>

\* the example, lines 398-400: the timer of the validation fires
ValidateTimeout ==
  /\ validateTimeout
  /\ validateTimeout' = FALSE
  /\ markers' = validatorMarkers(validate[1], text)
  /\ UNCHANGED <<text, cursor, typed, schemaConfig, result>>
  /\ UNCHANGED <<monaco, calls, validate>>

Next == Type \/ Validate \/ ParseSubqueries \/ Sanitize \/ Classify \/ Complete \/ Hover

\* what validate returned for the text of the state
Validated == result.op = "validateDB2SQL"
Parsed == result.op = "parseCTEs"
Sanitized == result.op = "stripCommentsAndStrings"
Classified == result.op = "getSQLContext"
Completed == result.op = "provideCompletionItems"
Hovered == result.op = "provideHover"

\* the diagnostics of a list that carry a message / a message that starts so
WithMessage(diags, msg) == {i \in DOMAIN diags : diags[i].message = msg}
StartsWith(s, prefix) == LitAt(s, 0, prefix)
WithPrefix(diags, prefix) == {i \in DOMAIN diags : StartsWith(diags[i].message, prefix)}

\* the 1-based line and column of offset o, counted from the newlines before it
LineOf(t, o) == 1 + Cardinality({i \in 0..(o - 1) : Ch(t, i) = "\n"})
ColumnOf(t, o) == o - Max({-1} \cup {i \in 0..(o - 1) : Ch(t, i) = "\n"})

\* an error diagnostic one column wide at offset o
ErrorAt(t, o, msg) ==
  Diagnostic(LineOf(t, o), ColumnOf(t, o), LineOf(t, o), ColumnOf(t, o) + 1, msg, "error")

(***************************************************************************)
(* Quotes and parentheses: every text of at most MaxScanLen keys out of    *)
(* ScanKeys, and the texts of the examples                                 *)
(***************************************************************************)
ScanKeys == {"'", "(", ")", "a", "\n"}
MaxScanLen == 4

ScanDocuments ==
  TextsOver(ScanKeys, MaxScanLen)
  \cup {"SELECT 'abc", "SELECT * FROM (T", "SELECT * FROM T)",
        "SELECT 'a', ('b''c') FROM (T\nWHERE x = '(' AND y = ('", "SELECT ')' FROM T"}

InitScan == Opened(ScanDocuments, {NoSchema, ExampleSchema})
SpecScan == InitScan /\ [][Next]_vars

\* the quotes that toggle the state of the scan: the ones that do not follow
\* a quote directly
TogglingQuotes(t) == {o \in 0..(Len(t) - 1) : Ch(t, o) = "'" /\ Ch(t, o - 1) # "'"}

\* C2: validate reports 'Unclosed string literal' exactly when the quote scan
\* ends inside a string (an odd number of toggling quotes); there is then one
\* such error, an error one column wide at the line and column of the quote
\* that opened the literal (the last toggling quote), and for SELECT 'abc it
\* is the only diagnostic returned.
C2_UnclosedString ==
  Validated =>
    LET quotes   == TogglingQuotes(text)
        unclosed == WithMessage(result.value, "Unclosed string literal")
    IN  /\ (unclosed # {}) <=> (Cardinality(quotes) % 2 = 1)
        /\ Cardinality(unclosed) <= 1
        /\ \A i \in unclosed :
             result.value[i] = ErrorAt(text, Max(quotes), "Unclosed string literal")
        /\ text = "SELECT 'abc"
             => result.value = <<Diagnostic(1, 8, 1, 9, "Unclosed string literal", "error")>>

\* a text of several lines whose third toggling quote is left open was validated
C2_Witness ==
  /\ Validated
  /\ Cardinality(TogglingQuotes(text)) >= 3
  /\ WithMessage(result.value, "Unclosed string literal") # {}
  /\ LineOf(text, Max(TogglingQuotes(text))) > 1

\* the offset where the line of offset o starts
LineStart(t, o) == 1 + Max({-1} \cup {i \in 0..(o - 1) : Ch(t, i) = "\n"})

\* the quotes of the line of offset o that stand before o
QuotesBefore(t, o) == {i \in LineStart(t, o)..(o - 1) : Ch(t, i) = "'"}

\* every string literal is closed on the line it starts on: no line holds an
\* odd number of quotes
QuotesClosedOnLine(t) ==
  \A o \in 0..Len(t) :
     (o = Len(t) \/ Ch(t, o) = "\n") => Cardinality(QuotesBefore(t, o)) % 2 = 0

\* the parentheses c of the text that stand outside string literals
ParensOutside(t, c) ==
  {o \in 0..(Len(t) - 1) : Ch(t, o) = c /\ Cardinality(QuotesBefore(t, o)) % 2 = 0}

\* opening minus closing parentheses outside strings at the offsets i..(e - 1)
Balance(t, i, e) ==
  Cardinality({o \in ParensOutside(t, "(") : i <= o /\ o < e})
  - Cardinality({o \in ParensOutside(t, ")") : i <= o /\ o < e})

\* a closing parenthesis that no opening parenthesis before it is left for
UnmatchedClosing(t) ==
  {o \in ParensOutside(t, ")") : \A i \in 0..o : Balance(t, i, o) <= 0}

\* an opening parenthesis that no closing parenthesis after it is left for
UnmatchedOpening(t) ==
  {o \in ParensOutside(t, "(") : \A e \in (o + 1)..Len(t) : Balance(t, o, e) >= 1}

\* C3: for a text whose quotes are closed on their line, validate reports
\* one 'Unexpected closing parenthesis' error at each ')' outside strings met
\* at depth 0 (the unmatched closing ones) and one 'Unclosed parenthesis'
\* error at each '(' outside strings that is unmatched at the end of the
\* scan; the number of 'Unclosed' errors is the final depth of the scan, and
\* a balanced text has neither error.
C3_Parentheses ==
  Validated /\ QuotesClosedOnLine(text) =>
    LET Reports(msg) == WithMessage(result.value, msg)
        Expected(offsets, msg) ==
          /\ {result.value[i] : i \in Reports(msg)}
               = {ErrorAt(text, o, msg) : o \in offsets}
          /\ Cardinality(Reports(msg)) = Cardinality(offsets)
    IN  /\ Expected(UnmatchedClosing(text), "Unexpected closing parenthesis")
        /\ Expected(UnmatchedOpening(text), "Unclosed parenthesis")
        /\ Cardinality(Reports("Unclosed parenthesis")) = ParenState(text).parenDepth
        /\ text = "SELECT * FROM (T" /\ ~schemaConfig.supplied
             => result.value = <<Diagnostic(1, 15, 1, 16, "Unclosed parenthesis", "error")>>
        /\ text = "SELECT * FROM T)" /\ ~schemaConfig.supplied
             => result.value =
                  <<Diagnostic(1, 16, 1, 17, "Unexpected closing parenthesis", "error")>>

\* a text with a closing parenthesis at depth 0, a matched pair after it and
\* an opening parenthesis left open was validated
C3_Witness ==
  /\ Validated
  /\ QuotesClosedOnLine(text)
  /\ UnmatchedClosing(text) # {}
  /\ UnmatchedOpening(text) # {}
  /\ \E o \in ParensOutside(text, "(") :
        o \notin UnmatchedOpening(text) /\ o > Min(UnmatchedClosing(text))
  /\ WithMessage(result.value, "Unexpected closing parenthesis") # {}
  /\ WithMessage(result.value, "Unclosed parenthesis") # {}

(***************************************************************************)
(* Comments and string literals: every text of at most MaxSanitizeLen      *)
(* tokens out of SanitizeKeys                                              *)
(***************************************************************************)
SanitizeKeys == {"'", "--", "/*", "*/", "\n", "a"}
MaxSanitizeLen == 4

SanitizeDocuments ==
  TextsOver(SanitizeKeys, MaxSanitizeLen)
  \cup {"SELECT 'it''s' -- don't\n, /* a\n'b' */ x FROM t"}

InitSanitize == Opened(SanitizeDocuments, {NoSchema})
SpecSanitize == InitSanitize /\ [][Next]_vars

\* C9: the text that stripCommentsAndStrings returns is exactly as long as
\* the text it was given.
C9_SanitizeKeepsLength == Sanitized => Len(result.value) = Len(text)

\* a text of several lines with a line comment, a block comment that spans
\* lines and a string literal was sanitized, and something was blanked
C9_Witness ==
  /\ Sanitized
  /\ Cands(text, lineCommentRegex) # {}
  /\ \E m \in Cands(text, blockCommentRegex) :
        IndexOf(text, "\n", m.index) \in m.index..(m.end - 1)
  /\ Cands(text, stringLiteralRegex) # {}
  /\ result.value # text

(***************************************************************************)
(* Commas before clause keywords: a select list, a comma with white space  *)
(* around it, and what follows the comma                                   *)
(***************************************************************************)
CommaDocuments ==
  Fill(<<{"SELECT a"}, {",", ", ", ",\n", " ,\n  "},
         {"FROM", "from", "WHERE", "GROUP BY", "GROUP  by", "ORDER\nBY", "HAVING",
          "UNION", "EXCEPT", "INTERSECT", "FETCH", "LIMIT", "FOR", ";", ")",
          "b", "GROUP", "BY", ""},
         {" t", ""}>>, 1)
  \cup {"SELECT a, b, FROM t, WHERE x IN (1, 2,)", "SELECT f(a,), ', from' FROM t,\n;"}

InitComma == Opened(CommaDocuments, {NoSchema, ExampleSchema})
SpecComma == InitComma /\ [][Next]_vars

\* the clause keywords of the check, and the other two things a comma may
\* not stand before
ClauseKeywords ==
  << <<"FROM">>, <<"WHERE">>, <<"GROUP", "BY">>, <<"ORDER", "BY">>, <<"HAVING">>,
     <<"UNION">>, <<"EXCEPT">>, <<"INTERSECT">>, <<"FETCH">>, <<"LIMIT">>,
     <<"FOR">>, <<";">>, <<")">> >>

\* where the keyword k that follows the comma at offset o (after optional
\* white space) ends, or -1 when k does not follow
KeywordAfterComma(t, o, k) == KwSeqEnd(t, SkipWs(t, o + 1), ClauseKeywords[k], 1)

\* the commas of the text that a clause keyword, ; or ) follows
CommasBeforeKeyword(t) ==
  {o \in 0..(Len(t) - 1) :
     Ch(t, o) = "," /\ \E k \in DOMAIN ClauseKeywords : KeywordAfterComma(t, o, k) >= 0}

\* the error for the comma at offset o: the keyword as the text has it, in
\* upper case
UnexpectedCommaAt(t, o) ==
  LET k == CHOOSE k \in DOMAIN ClauseKeywords : KeywordAfterComma(t, o, k) >= 0
  IN  ErrorAt(t, o, "Unexpected comma before "
                      \o toUpperCase(Substring(t, SkipWs(t, o + 1),
                                               KeywordAfterComma(t, o, k))))

\* C4: every comma followed, after optional white space, by FROM, WHERE,
\* GROUP BY, ORDER BY, HAVING, UNION, EXCEPT, INTERSECT, FETCH, LIMIT, FOR, ;
\* or ) has exactly one error 'Unexpected comma before <KEYWORD>' at the
\* position of the comma, no other comma has one, and for SELECT a, FROM t
\* (validated without a schema) it is the only diagnostic returned.
C4_TrailingComma ==
  Validated =>
    LET found == WithPrefix(result.value, "Unexpected comma before ")
    IN  /\ \A o \in CommasBeforeKeyword(text) :
             Cardinality({i \in found : result.value[i] = UnexpectedCommaAt(text, o)}) = 1
        /\ Cardinality(found) = Cardinality(CommasBeforeKeyword(text))
        /\ text = "SELECT a, FROM t" /\ ~schemaConfig.supplied
             => result.value =
                  <<Diagnostic(1, 9, 1, 10, "Unexpected comma before FROM", "error")>>

\* a text with two such commas, one of them with the keyword on the next
\* line, was validated
C4_Witness ==
  /\ Validated
  /\ Cardinality(CommasBeforeKeyword(text)) >= 2
  /\ \E o \in CommasBeforeKeyword(text) : LineOf(text, SkipWs(text, o + 1)) > LineOf(text, o)
  /\ Cardinality(WithPrefix(result.value, "Unexpected comma before ")) >= 2

(***************************************************************************)
(* Queries against a schema: references to tables, to columns through a    *)
(* table, an alias or a subquery, and columns named without a qualifier    *)
(***************************************************************************)
QueryDocuments ==
  Fill(<<{"SELECT "}, {"*", "E.SALARY, D.DEPT_ID"},
         {" FROM EMPLOYEES E", " FROM HR.EMPLOYEES AS E JOIN DEPTS D ON D.X = E.EMP_ID",
          ",\nFROM NOPE E WHERE (E.X = 'a"}>>, 1)
  \cup Fill(<<{"WITH A AS (SELECT EMP_ID FROM EMPLOYEES)"},
              {"", ", B AS (SELECT SALARY, EMP_ID FROM A)"},
              {" SELECT "}, {"NAME", "A.EMP_ID, A.NAME, E.SALARY"},
              {" FROM A", " FROM A JOIN EMPLOYEES E JOIN NOPE N"}>>, 1)

InitQuery == Opened(QueryDocuments, {NoSchema, EmptySchema, ExampleSchema, QualifiedSchema})
SpecQuery == InitQuery /\ [][Next]_vars

\* the findings of the checks against the schema: unknown tables and unknown
\* columns, with or without a qualifier
SchemaFindings(diags) == WithPrefix(diags, "Unknown ")

\* C1: every finding of validate about an unknown table or an unknown column
\* is a warning, never an error, and validate returns no such finding when
\* it is called without a schema.
C1_SchemaFindingsAreWarnings ==
  Validated =>
    \A i \in SchemaFindings(result.value) :
       result.value[i].severity = "warning" /\ schemaConfig.supplied

\* a text was validated against a schema and has an unknown table, an
\* unknown column of a table, one of a subquery and one without a qualifier
C1_Witness ==
  /\ Validated
  /\ schemaConfig.supplied
  /\ WithPrefix(result.value, "Unknown table: ") # {}
  /\ \E i \in SchemaFindings(result.value) :
        Includes(<<result.value[i].message>>,
                 "Unknown column \"SALARY\" in table \"EMPLOYEES\"")
  /\ WithPrefix(result.value, "Unknown column \"NAME\" in CTE \"A\"") # {}
  /\ WithPrefix(result.value, "Unknown column \"SALARY\". Available columns from CTEs") # {}

(***************************************************************************)
(* Tables named after FROM and JOIN: names of the schema in either case,   *)
(* with and without a schema name, and names of subqueries declared by a   *)
(* WITH clause                                                             *)
(***************************************************************************)
TableDocuments ==
  Fill(<<{"SELECT * FROM "},
         {"EMPLOYEES", "employees", "DEPTS", "HR.EMPLOYEES", "X.EMPLOYEES", "HR.NOPE"},
         {"", " E JOIN hr.depts D"}>>, 1)
  \cup Fill(<<{"WITH ", "WITH RECURSIVE "}, {"A AS (SELECT EMP_ID FROM EMPLOYEES)"},
              {"", ", B AS (SELECT EMP_ID FROM A)", " --x\n, B AS (SELECT EMP_ID FROM A)"},
              {" SELECT * FROM "}, {"A", "b JOIN NOPE"}>>, 1)

InitTables == Opened(TableDocuments, {ExampleSchema, TwoTableSchema, QualifiedSchema})
SpecTables == InitTables /\ [][Next]_vars

\* the FROM/JOIN targets of a text, in order
TableTargets(t) == ExecAll(Cands(t, tableRefRegex), 0)

\* the target names a table of the schema, by its short name or by its name
\* with the schema, in any case
InSchema(name, config) ==
  \E i \in DOMAIN getAllTablesForValidation(config) :
     LET tbl == getAllTablesForValidation(config)[i]
     IN  \/ toUpperCase(tbl.name) = ShortName(toUpperCase(name))
         \/ SchemaOf(tbl) # "" /\ FullName(tbl) = toUpperCase(name)

\* the target names a subquery that parseCTEs returns for the text
DeclaredSubquery(name, t) ==
  \E i \in DOMAIN parseCTEs(t) :
     parseCTEs(t)[i].name \in {toUpperCase(name), ShortName(toUpperCase(name))}

\* the targets that are neither
UnknownTargets(t, config) ==
  SelectSeq(TableTargets(t),
            LAMBDA m : ~InSchema(m.g1, config) /\ ~DeclaredSubquery(m.g1, t))

\* the findings of a list about unknown tables, in order
UnknownTableFindings(diags) ==
  SelectSeq(diags, LAMBDA d : StartsWith(d.message, "Unknown table: "))

\* C5: with a schema supplied, validate returns an 'Unknown table' warning
\* for a FROM/JOIN target if and only if the target matches no table of the
\* schema by short or schema-qualified name (in any case) and is not the
\* name of a subquery that parseCTEs returns; no declared subquery is
\* reported.  The code does not keep to this: the names it exempts are those
\* of cteNames (lines 191-204), which misses subqueries parseCTEs returns.
C5_UnknownTable ==
  Validated /\ schemaConfig.supplied =>
    /\ [i \in DOMAIN UnknownTableFindings(result.value) |->
          UnknownTableFindings(result.value)[i].message]
        = [i \in DOMAIN UnknownTargets(text, schemaConfig) |->
             "Unknown table: " \o UnknownTargets(text, schemaConfig)[i].g1]
    /\ \A i \in DOMAIN UnknownTableFindings(result.value) :
          UnknownTableFindings(result.value)[i].severity = "warning"

(***************************************************************************)
(* Qualified column references: through the name of a table, through an    *)
(* alias given with or without AS, and through the name of a subquery      *)
(***************************************************************************)
ColumnDocuments ==
  Fill(<<{"SELECT "},
         {"E.NAME", "E.SALARY", "E.DEPTS", "e.name", "EMPLOYEES.SALARY", "D.DEPT_ID, D.NAME"},
         {" FROM EMPLOYEES"}, {" E", " AS E", ""}, {"", " JOIN DEPTS D"}>>, 1)
  \cup Fill(<<{"WITH A AS (SELECT EMP_ID FROM EMPLOYEES) SELECT "},
              {"A.NAME", "A.EMP_ID", "A.DEPTS", "a.emp_id, a.name"}, {" FROM A"}>>, 1)

InitColumns == Opened(ColumnDocuments, {ExampleSchema, TwoTableSchema})
SpecColumns == InitColumns /\ [][Next]_vars

\* the qualified references Q.C of a text: g1 is Q, g2 is C
QualifiedReferences(t) ==
  {ExecAll(Cands(t, columnRefRegex), 0)[i] :
     i \in DOMAIN ExecAll(Cands(t, columnRefRegex), 0)}

\* the offset of C in the reference
ColumnOffset(m) == m.index + Len(m.g1) + 1

\* the name of the table that Q stands for: the target of the FROM/JOIN that
\* gives Q as its alias, or else Q itself
TableNameOf(t, q) ==
  IF aliasMatchOf(t, toUpperCase(q)).index >= 0
  THEN ShortName(toUpperCase(aliasMatchOf(t, toUpperCase(q)).g1))
  ELSE toUpperCase(q)

\* the tables of the schema with that name
TablesNamed(config, name) ==
  {tbl \in {getAllTablesForValidation(config)[i] :
              i \in DOMAIN getAllTablesForValidation(config)} :
     toUpperCase(tbl.name) = name}

\* the table has a column of that name, in any case
HasColumnNamed(tbl, c) ==
  \E k \in DOMAIN tbl.columns : toUpperCase(tbl.columns[k].name) = toUpperCase(c)

\* the warning for column C of the reference m, unknown in table tbl
UnknownColumnOfTable(t, m, tbl) ==
  DiagnosticAt(t, ColumnOffset(m), Len(m.g2),
    "Unknown column \"" \o m.g2 \o "\" in table \"" \o tbl.name \o "\"", "warning")

\* the diagnostics of a list, as a set
DiagnosticsOf(diags) == {diags[i] : i \in DOMAIN diags}

\* C6: with a schema supplied, for a qualified reference Q.C where Q is the
\* name of a schema table T or an alias bound to T by a FROM/JOIN, validate
\* returns a warning naming column C and table T if and only if T has no
\* column named C (in any case); SELECT E.SALARY FROM EMPLOYEES E has exactly
\* one such warning, naming SALARY and EMPLOYEES.  The code does not keep to
\* this: line 401 drops every reference whose C is the name of a schema table.
C6_QualifiedColumn ==
  Validated /\ schemaConfig.supplied =>
    /\ \A m \in QualifiedReferences(text) :
         \A tbl \in TablesNamed(schemaConfig, TableNameOf(text, m.g1)) :
            HasColumns(tbl) /\ ~DeclaredSubquery(m.g1, text) =>
              (UnknownColumnOfTable(text, m, tbl) \in DiagnosticsOf(result.value)
                 <=> ~HasColumnNamed(tbl, m.g2))
    /\ text = "SELECT E.SALARY FROM EMPLOYEES E" =>
         /\ Cardinality(WithPrefix(result.value, "Unknown column")) = 1
         /\ WithPrefix(result.value, "Unknown column \"SALARY\" in table \"EMPLOYEES\"") # {}

\* the warning for column C of the reference m, unknown in the subquery cte
UnknownColumnOfSubquery(t, m, cte) ==
  DiagnosticAt(t, ColumnOffset(m), Len(m.g2),
    "Unknown column \"" \o m.g2 \o "\" in CTE \"" \o cte.name
      \o "\". Available columns: " \o ColumnNames(cte),
    "warning")

\* C7: with a schema supplied, a qualified reference S.C where S is a declared
\* subquery whose output columns do not include C has a warning that names C
\* and S and lists the columns of S; for
\* WITH A AS (SELECT EMP_ID FROM EMPLOYEES) SELECT A.NAME FROM A it is the only
\* diagnostic returned.  The code does not keep to this: line 401 drops the
\* reference when C is the name of a schema table.
C7_SubqueryColumn ==
  Validated /\ schemaConfig.supplied =>
    /\ \A m \in QualifiedReferences(text) :
         \A i \in DOMAIN parseCTEs(text) :
            /\ parseCTEs(text)[i].name = toUpperCase(m.g1)
            /\ ~cteColumnExists(parseCTEs(text)[i], toUpperCase(m.g2))
            => UnknownColumnOfSubquery(text, m, parseCTEs(text)[i])
                 \in DiagnosticsOf(result.value)
    /\ text = "WITH A AS (SELECT EMP_ID FROM EMPLOYEES) SELECT A.NAME FROM A" =>
         result.value =
           <<Diagnostic(1, 51, 1, 55,
               "Unknown column \"NAME\" in CTE \"A\". Available columns: EMP_ID",
               "warning")>>

(***************************************************************************)
(* One subquery definition: WITH N AS (SELECT items FROM ...), the items   *)
(* taken from aliased expressions, qualified columns, bare identifiers, *  *)
(* and expressions without an alias                                        *)
(***************************************************************************)
SubqueryNames == {"A", "cte_1"}

\* projection items by kind
Aliased(expr, alias) == [kind |-> "aliased", expr |-> expr, name |-> alias]
Qualified(tbl, col) == [kind |-> "qualified", expr |-> tbl \o "." \o col, name |-> col]
Bare(id) == [kind |-> "bare", expr |-> id, name |-> id]
Unaliased(expr) == [kind |-> "other", expr |-> expr, name |-> ""]

ProjectionItems ==
  {Bare("X"), Bare("y_2"), Qualified("T", "Z"), Aliased("T.X + 1", "total"),
   Aliased("F(A, B)", "G"), Aliased("'a, b'", "S"),
   Aliased("EXTRACT(YEAR FROM D)", "Y"), Unaliased("*"), Unaliased("X + 1")}

\* the projections: one item, or two out of a few
Projections ==
  {<<i>> : i \in ProjectionItems}
  \cup {<<i, j>> : i \in {Bare("X"), Aliased("F(A, B)", "G"), Unaliased("*")},
                   j \in {Qualified("T", "Z"), Aliased("'a, b'", "S"), Unaliased("X + 1")}}

\* what follows the projection, with the FROM/JOIN targets of the body
SubqueryTails ==
  {[text |-> " FROM T)", fromTables |-> <<"T">>],
   [text |-> "\nFROM T JOIN hr.u U ON U.K = T.K) SELECT * FROM A",
    fromTables |-> <<"T", "HR.U">>]}

\* the text of an item, and the items of a projection separated by commas
ItemText(item) ==
  IF item.kind = "aliased" THEN item.expr \o " AS " \o item.name ELSE item.expr
ProjectionText(proj) == Join([i \in DOMAIN proj |-> ItemText(proj[i])], ", ")

\* WITH N AS (SELECT e1, ..., ek FROM ...)
SubqueryText(n, proj, tail) ==
  "WITH " \o n \o " AS (SELECT " \o ProjectionText(proj) \o tail.text

SubqueryDocuments ==
  {SubqueryText(n, proj, tail) :
     n \in SubqueryNames, proj \in Projections, tail \in SubqueryTails}

InitSubquery == Opened(SubqueryDocuments, {NoSchema})
SpecSubquery == InitSubquery /\ [][Next]_vars

\* the column an item contributes: its alias, the right-hand side of
\* table.column, the bare identifier; none for * or an expression without
\* alias.  Names are compared in upper case
ItemColumns(item) == IF item.kind = "other" THEN <<>> ELSE <<toUpperCase(item.name)>>

\* the names of the columns of a parsed subquery, in order
ColumnNamesOf(cte) == [i \in DOMAIN cte.columns |-> cte.columns[i].name]

\* C8: for a text holding one well-formed definition
\* WITH N AS (SELECT e1, ..., ek FROM ...), parseCTEs returns exactly one entry,
\* whose name is N in upper case, whose columns are in projection order the
\* alias of each expr AS alias, the right-hand side of each table.column and
\* each bare identifier (nothing for * and for other expressions without an
\* alias; items split only at commas outside parentheses and strings), and
\* whose fromTables are the FROM/JOIN targets of the body in upper case.  The
\* code does not keep to this: it cuts the projection at the first FROM
\* between white space, also inside an expression (line 1070).
C8_ParsedSubquery ==
  Parsed =>
    \A n \in SubqueryNames, proj \in Projections, tail \in SubqueryTails :
       text = SubqueryText(n, proj, tail) =>
         /\ Len(result.value) = 1
         /\ result.value[1].name = toUpperCase(n)
         /\ ColumnNamesOf(result.value[1])
              = Flatten([i \in DOMAIN proj |-> ItemColumns(proj[i])])
         /\ result.value[1].fromTables = tail.fromTables

(***************************************************************************)
(* The classifier at the end of a text: a keyword, then nothing, a blank   *)
(* or a line break, then perhaps the beginning of a word                   *)
(***************************************************************************)
ContextDocuments ==
  Fill(<<{"", "SELECT a FROM t\n"},
         {"FROM", "from", "JOIN", "INTO", "UPDATE", "TABLE", "TRUNCATE",
          "SELECT", "WHERE", "AND", "OR", "ON", "SET", "ORDER BY", "GROUP\nBY",
          "HAVING", "a,", "BY"},
         {"", " ", "\n"}, {"", "emp"}>>, 1)

InitContext == Opened(ContextDocuments, {NoSchema})
SpecContext == InitContext /\ [][Next]_vars

\* the keywords that ask for a table and those that ask for a column
ContextTableKeywords ==
  {<<"FROM">>, <<"JOIN">>, <<"INTO">>, <<"UPDATE">>, <<"TABLE">>, <<"TRUNCATE">>}
ContextColumnKeywords ==
  {<<"SELECT">>, <<"WHERE">>, <<"AND">>, <<"OR">>, <<"ON">>, <<"SET">>,
   <<"ORDER", "BY">>, <<"GROUP", "BY">>, <<"HAVING">>, <<",">>}

\* the statement of the cursor, up to the cursor
StatementBefore(t, c) ==
  Substring(t, LastIndexOf(Substring(t, 0, c), ";") + 1, c)

\* s ends with the keyword k, as a word of its own (a comma needs no boundary)
EndsWithKeyword(s, k) ==
  \E q \in 0..(Len(s) - 1) :
     /\ KwSeqEnd(s, q, k, 1) = Len(s)
     /\ k = <<",">> \/ Ch(s, q - 1) \notin WordChars

\* where the run of non-blank characters that ends at the end of s begins
RECURSIVE WordStart(_, _)
WordStart(s, e) == IF e > 0 /\ Ch(s, e - 1) \notin WsChars THEN WordStart(s, e - 1) ELSE e

\* the keyword k immediately precedes the cursor, or the word being typed
KeywordPrecedes(s, k) ==
  \/ EndsWithKeyword(TrimEnd(s), k)
  \/ /\ WordStart(s, Len(s)) < Len(s)
     /\ EndsWithKeyword(TrimEnd(Substring(s, 0, WordStart(s, Len(s)))), k)

\* an identifier and a dot (and white space) end s
EndsWithDot(s) == Len(TrimEnd(s)) > 0 /\ Ch(s, Len(TrimEnd(s)) - 1) = "."

\* C10: when no identifier with a dot precedes the cursor, the classifier
\* goes by the keyword that immediately precedes the cursor or the word being
\* typed, on the same line or on an earlier line of the statement: FROM,
\* JOIN, INTO, UPDATE, TABLE or TRUNCATE give kind table; otherwise SELECT,
\* WHERE, AND, OR, ON, SET, ORDER BY, GROUP BY, HAVING or a comma give kind
\* column.  The code does not keep to this: it looks for the keyword before
\* the word being typed on the line of the cursor only (lines 2019-2035).
C10_KeywordDecides ==
  Classified /\ ~EndsWithDot(StatementBefore(text, cursor)) =>
    /\ (\E k \in ContextTableKeywords : KeywordPrecedes(StatementBefore(text, cursor), k))
         => result.value.context = "table"
    /\ /\ ~\E k \in ContextTableKeywords :
              KeywordPrecedes(StatementBefore(text, cursor), k)
       /\ \E k \in ContextColumnKeywords :
              KeywordPrecedes(StatementBefore(text, cursor), k)
       => result.value.context = "column"

(***************************************************************************)
(* Completion in comments (C11), over the documents of SpecSanitize.       *)
(***************************************************************************)
\* one step of a lexer of SQL: st.mode tells whether offset st.pos lies in
\* code, in a string literal, in a line comment or in a block comment
LexStep(s, st) ==
  LET Step(c, two) ==
        IF st.mode = "code"
        THEN IF c = "'" THEN [mode |-> "string", pos |-> st.pos + 1]
             ELSE IF two = "--" THEN [mode |-> "line", pos |-> st.pos + 2]
             ELSE IF two = "/*" THEN [mode |-> "block", pos |-> st.pos + 2]
             ELSE [st EXCEPT !.pos = @ + 1]
        ELSE IF st.mode = "string"
        THEN [mode |-> IF c = "'" THEN "code" ELSE "string", pos |-> st.pos + 1]
        ELSE IF st.mode = "line"
        THEN [mode |-> IF c = "\n" THEN "code" ELSE "line", pos |-> st.pos + 1]
        ELSE IF two = "*/" THEN [mode |-> "code", pos |-> st.pos + 2]
        ELSE [st EXCEPT !.pos = @ + 1]
  IN  Step(Ch(s, st.pos), Substring(s, st.pos, st.pos + 2))

RECURSIVE Lex(_, _)
Lex(s, st) == IF st.pos >= Len(s) THEN st ELSE Lex(s, LexStep(s, st))

\* where the cursor lies, from the text before it
ModeAt(t, c) == Lex(Substring(t, 0, c), [mode |-> "code", pos |-> 0]).mode

\* the cursor lies in a line comment or in a block comment not yet closed
CursorInComment == ModeAt(text, cursor) \in {"line", "block"}

\* C11: whenever the cursor lies inside a line comment (after a "--" that is
\* not inside a string literal) or inside a block comment opened before the
\* cursor and not yet closed, provideCompletionItems returns an empty list of
\* suggestions, whatever text precedes the comment
C11_NoneInComment ==
  (Completed /\ CursorInComment) => result.value = <<>>

(***************************************************************************)
(* Completion (C12, C13, C14): queries over subqueries and schema tables   *)
(* with the cursor after a table keyword, after a qualifier, in a          *)
(* projection list, in a subquery body or in a comment.                    *)
(***************************************************************************)
\* a schema with a name prefix shown, a table type, a column type and a
\* column description
DetailedSchema ==
  [supplied |-> TRUE, showSchemaPrefix |-> TRUE,
   tables |-> <<[name |-> "EMPLOYEES", schema |-> "HR", type |-> "VIEW",
                 columns |-> <<[name |-> "EMP_ID", dataType |-> "INTEGER",
                                description |-> "key"],
                               [name |-> "NAME"]>>],
                [name |-> "DEPTS", columns |-> <<[name |-> "DEPT_ID"]>>],
                [name |-> "LOG"]>>]

OneSubquery == "WITH A AS (SELECT EMP_ID FROM EMPLOYEES) "
StarSubquery == "WITH A AS (SELECT * FROM EMPLOYEES E), B AS (SELECT "
QualifiedStarSubquery ==
  "WITH A AS (SELECT E.*, UPPER(NAME) AS U FROM EMPLOYEES E JOIN DEPTS D ON 1 = 1), B AS (SELECT "

\* the text before the cursor and the text after it
CompletionDocuments ==
  {[before |-> b, after |-> ""] :
     b \in {"", "SELECT * FROM ", "SELECT NAME FROM EMPLOYEES WHERE ",
            "SELECT * FROM EMPLOYEES E WHERE E.", "SELECT * FROM LOG WHERE LOG.",
            "SELECT * FROM EMPLOYEES WHERE HR.", "SELECT * FROM T WHERE T.",
            "SELECT 1 -- ",
            OneSubquery \o "SELECT * FROM ",
            OneSubquery \o "SELECT * FROM A WHERE A.",
            OneSubquery \o "SELECT * FROM A X WHERE X.",
            OneSubquery \o "SELECT * FROM A JOIN EMPLOYEES AS E ON E."}}
  \cup {[before |-> OneSubquery \o "SELECT * FROM A WHERE EMP_ID IN (SELECT EMP_ID FROM ",
         after |-> ")"],
        [before |-> "SELECT EMPLOYEES.", after |-> " FROM EMPLOYEES"],
        [before |-> OneSubquery \o "SELECT ", after |-> " FROM A"],
        [before |-> OneSubquery \o "SELECT ", after |-> " FROM EMPLOYEES E JOIN A"],
        [before |-> "/* ", after |-> " */ SELECT 1"],
        [before |-> "WITH A AS (SELECT ", after |-> " FROM HR.EMPLOYEES) SELECT 1 FROM A"],
        [before |-> StarSubquery, after |-> " FROM A) SELECT 1 FROM B"],
        [before |-> StarSubquery \o "NAME FROM ", after |-> " A) SELECT 1 FROM B"],
        [before |-> StarSubquery \o "1 FROM A WHERE NAME IN (SELECT N FROM ",
         after |-> ")) SELECT 1 FROM B"],
        [before |-> QualifiedStarSubquery, after |-> " FROM DEPTS JOIN A) SELECT 1 FROM B"]}

\* a document is open, the cursor where the document says, nothing typed or
\* computed yet
OpenedAt(documents, configs) ==
  /\ \E d \in documents : text = d.before \o d.after /\ cursor = Len(d.before)
  /\ typed = 0
  /\ schemaConfig \in configs
  /\ result = NoResult
  /\ NotMounted

InitCompletion == OpenedAt(CompletionDocuments, {NoSchema, TwoTableSchema, DetailedSchema})
SpecCompletion == InitCompletion /\ [][Next]_vars

\* the names of the subqueries the text declares and of the tables of the
\* schema (bare or behind the name of their schema)
SubqueryNamesOf(t) == {parseCTEs(t)[i].name : i \in DOMAIN parseCTEs(t)}
TableNamesOf(config) ==
  {getAllTables(config)[i].name : i \in DOMAIN getAllTables(config)}
  \cup {SchemaOf(getAllTables(config)[i]) \o "." \o getAllTables(config)[i].name :
          i \in DOMAIN getAllTables(config)}

\* the suggestion names a subquery or a table
NamesSource(s) ==
  \/ s.kind = "Struct" /\ s.label \in SubqueryNamesOf(text)
  \/ s.kind = "Class" /\ s.label \in TableNamesOf(schemaConfig)

\* C12: when the classifier yields the kind table, the completion list
\* consists only of names of declared subqueries and of schema tables: no
\* column, no keyword, service, function, data type or snippet
C12_TableContext ==
  (Completed /\ getSQLContext(text, cursor).context = "table")
    => \A i \in DOMAIN result.value : NamesSource(result.value[i])

\* the source the qualifier before the cursor resolves to: the name itself
\* or, for an alias bound by FROM or JOIN in the statement, what it is bound to
ResolvedSource(context) ==
  IF Prop(context, "tableAlias") \in DOMAIN context.aliasToTable
  THEN context.aliasToTable[context.tableAlias] ELSE Prop(context, "tableAlias")

\* the names of the columns of the subquery or of the schema table so named,
\* as a set of at most one list (the subquery first)
ColumnsOfSource(name, t, config) ==
  {ColumnNamesOf(parseCTEs(t)[i]) : i \in {j \in DOMAIN parseCTEs(t) : parseCTEs(t)[j].name = name}}
  \cup {[k \in DOMAIN getAllTables(config)[i].columns |->
           getAllTables(config)[i].columns[k].name] :
          i \in {j \in DOMAIN getAllTables(config) :
                   /\ HasColumns(getAllTables(config)[j])
                   /\ name \in {toUpperCase(getAllTables(config)[j].name),
                                FullName(getAllTables(config)[j])}}}

\* the qualifier before the cursor (X of "X.") and the list of the labels of
\* the suggestions
QualifierAt(t, c) == Prop(getSQLContext(t, c), "tableAlias")
LabelsOf(suggestions) == [i \in DOMAIN suggestions |-> suggestions[i].label]

\* C13: when "X." stands before the cursor and X is a declared subquery, a
\* schema table or an alias bound by FROM/JOIN in the statement to one of
\* them, the completion list is exactly the columns of that source, with no
\* catalog or snippet suggestion
C13_QualifierColumns ==
  (/\ Completed
   /\ QualifierAt(text, cursor) # ""
   /\ ColumnsOfSource(ResolvedSource(getSQLContext(text, cursor)), text, schemaConfig) # {})
    => /\ LabelsOf(result.value)
            \in ColumnsOfSource(ResolvedSource(getSQLContext(text, cursor)), text,
                                schemaConfig)
       /\ \A i \in DOMAIN result.value : result.value[i].kind = "Field"

\* the characters of the texts in the order of their character codes, and
\* the place of a character in it (0 for any other character)
CharOrder ==
  "\n !#$%&'()" \o "*+,-./0123456789:;<=>?@ABCDEFGHIJKLMNOPQRSTUVWXYZ[]^_"
  \o "abcdefghijklmnopqrstuvwxyz{|}~"
CharCodeOf(c) ==
  LET at == {i \in 1..Len(CharOrder) : SubSeq(CharOrder, i, i) = c}
  IN  IF at = {} THEN 0 ELSE Min(at)

\* a orders strictly before b, character by character
SortsBefore(a, b) ==
  \E i \in 1..Len(b) :
     /\ i - 1 <= Len(a)
     /\ SubSeq(a, 1, i - 1) = SubSeq(b, 1, i - 1)
     /\ (i > Len(a) \/ CharCodeOf(Ch(a, i - 1)) < CharCodeOf(Ch(b, i - 1)))

\* the rank of a suggestion: 0 for one that comes from the schema or the
\* subqueries (table, subquery, column), 1 for one of a static catalog, 2 for
\* a snippet template
RankOf(s) ==
  IF s.kind \in {"Field", "Struct", "Class"} THEN 0
  ELSE IF s.kind = "Snippet" THEN 2 ELSE 1

\* C14: in every completion list, the sort key of each schema-driven
\* suggestion orders strictly before that of every static-catalog suggestion,
\* and the sort key of each static-catalog suggestion strictly before that of
\* every snippet template
C14_RankedSortKeys ==
  Completed =>
    \A i, j \in DOMAIN result.value :
       RankOf(result.value[i]) < RankOf(result.value[j])
         => SortsBefore(result.value[i].sortText, result.value[j].sortText)

\* a list with columns, a subquery, a table, catalog entries and snippets
C14_Witness ==
  /\ Completed
  /\ \A k \in {"Field", "Struct", "Class", "Keyword", "Module", "Constant", "Function",
               "TypeParameter", "Snippet"} :
        \E i \in DOMAIN result.value : result.value[i].kind = k

(***************************************************************************)
(* Text being typed (C15): every prefix of a query with two subqueries,    *)
(* as the text is while it is typed from left to right.                    *)
(***************************************************************************)
TypedQuery ==
  "WITH A AS (SELECT F(X) AS Y FROM T), B AS (SELECT ')' FROM A) SELECT 1 FROM B"

PrefixDocuments == {Substring(TypedQuery, 0, n) : n \in 0..Len(TypedQuery)}

InitPrefix == Opened(PrefixDocuments, {NoSchema})
SpecPrefix == InitPrefix /\ [][Next]_vars

\* offset p of s lies outside the string literals that start in s
OutsideString(s, p) == Cardinality({i \in 0..(p - 1) : Ch(s, i) = "'"}) % 2 = 0

\* the parentheses c of s outside string literals
ParenCount(s, c) == Cardinality({p \in 0..(Len(s) - 1) : Ch(s, p) = c /\ OutsideString(s, p)})

\* the entry is well delimited: the parenthesis that opens its body is closed
\* by the one before endOffset, the parentheses in between being balanced
WellDelimited(t, cte) ==
  LET Balanced(body) ==
        /\ OutsideString(body, Len(body))
        /\ ParenCount(body, "(") = ParenCount(body, ")")
  IN  /\ Ch(t, cte.bodyStartOffset - 1) = "("
      /\ cte.endOffset > cte.bodyStartOffset
      /\ Ch(t, cte.endOffset - 1) = ")"
      /\ Balanced(Substring(t, cte.bodyStartOffset, cte.endOffset - 1))

\* C15: parseCTEs returns a list for every text; a text without "name AS ("
\* yields the empty list, and a definition whose opening parenthesis is never
\* closed yields no entry: every entry is a well-delimited definition
C15_OnlyWellDelimited ==
  Parsed =>
    /\ result.value \in Seq({result.value[i] : i \in DOMAIN result.value})
    /\ Cands(text, ctePattern) = {} => result.value = <<>>
    /\ \A i \in DOMAIN result.value : WellDelimited(text, result.value[i])

(***************************************************************************)
(* Resolution of names against the schema and the subqueries: queries that *)
(* read tables and subqueries under their names and aliases, with the      *)
(* names, comments and wildcards at the places the checks look at          *)
(***************************************************************************)
ResolveDocuments ==
  {"SELECT * FROM NOPE", "SELECT *\nFROM NOPE JOIN IN", "SELECT * FROM OM",
   "SELECT E.NAME, E.AGE\nFROM EMPLOYEES E", "SELECT * FROM EMPLOYEES",
   "WITH A AS (SELECT EMP_ID FROM EMPLOYEES), B AS (SELECT /* c */ X AS Y FROM A) SELECT Y FROM B",
   "WITH A AS (SELECT EMP_ID FROM EMPLOYEES), B AS (SELECT X, EMP_ID FROM A) SELECT Z FROM B",
   "WITH A AS (SELECT EMP_ID FROM EMPLOYEES),\nB AS (SELECT EMP_ID,\n X FROM A)\nSELECT /* c */ Z FROM B",
   "WITH A AS (SELECT * FROM EMPLOYEES) SELECT A.NAME FROM A",
   "WITH A AS (SELECT * FROM EMPLOYEES) SELECT A.NOPE FROM A",
   "WITH A AS (SELECT E.* FROM EMPLOYEES E) SELECT X.NAME FROM A X",
   "WITH A AS (SELECT EMP_ID FROM EMPLOYEES) SELECT A.EMP_ID, A.NAME FROM A",
   "WITH A AS (SELECT EMP_ID FROM EMPLOYEES) SELECT X.EMP_ID, X.NAME FROM A AS X",
   "WITH A AS (SELECT EMP_ID FROM EMPLOYEES) SELECT EMP_ID, DEPT_ID FROM A JOIN DEPTS ON 1 = 1",
   "WITH A AS (SELECT EMP_ID FROM EMPLOYEES) SELECT DEPT_ID, NOPE FROM DEPTS JOIN A ON 1 = 1",
   "WITH A AS (SELECT * FROM EMPLOYEES) SELECT NAME, NOPE FROM A",
   "WITH A AS (SELECT EMP_ID FROM EMPLOYEES), B AS (SELECT NAME FROM EMPLOYEES) SELECT EMP_ID, NAME FROM A JOIN B ON 1 = 1",
   "WITH A AS (SELECT EMP_ID FROM EMPLOYEES), B AS (SELECT EMP_ID, DEPT_ID, NOPE FROM A JOIN DEPTS ON 1 = 1) SELECT 1 FROM B"}

InitResolve == Opened(ResolveDocuments, {ExampleSchema, TwoTableSchema})
SpecResolve == InitResolve /\ [][Next]_vars

\* the offset in t of a 1-based line and column
OffsetAt(t, line, column) ==
  Min({o \in 0..Len(t) : LineOf(t, o) = line}) + column - 1

\* the text a finding spans
SpannedText(t, d) ==
  Substring(t, OffsetAt(t, d.startLineNumber, d.startColumn),
            OffsetAt(t, d.endLineNumber, d.endColumn))

\* the identifier a warning names: after 'Unknown table: ', or between the
\* quotes after 'Unknown column '
FlaggedIdentifier(msg) ==
  IF StartsWith(msg, "Unknown table: ") THEN Substring(msg, 15, Len(msg))
  ELSE Substring(msg, 16, IndexOf(msg, "\"", 16))

\* the findings about unknown tables and unknown columns
UnknownNameWarnings(diags) ==
  WithPrefix(diags, "Unknown table: ") \cup WithPrefix(diags, "Unknown column \"")

\* the range of a finding covers a whole identifier of the text: it is on one
\* line and no identifier character precedes or follows it
SpansWholeIdentifier(t, d) ==
  /\ d.startLineNumber = d.endLineNumber
  /\ Ch(t, OffsetAt(t, d.startLineNumber, d.startColumn) - 1) \notin IdChars
  /\ Ch(t, OffsetAt(t, d.endLineNumber, d.endColumn)) \notin IdChars

\* C17: the range of every unknown-table and unknown-column warning spans
\* exactly the flagged identifier in the original text: the text in
\* [startColumn, endColumn) of its line is the identifier the message names,
\* and it is a whole identifier there
C17_WarningSpansIdentifier ==
  Validated =>
    \A i \in UnknownNameWarnings(result.value) :
      /\ SpannedText(text, result.value[i]) = FlaggedIdentifier(result.value[i].message)
      /\ SpansWholeIdentifier(text, result.value[i])

\* the subquery a qualified-column warning names: between the quotes after
\* 'in CTE '
NamedSubquery(msg) ==
  LET At(p) == Substring(msg, p + 10, IndexOf(msg, "\"", p + 10))
  IN  At(IndexOf(msg, "\" in CTE \"", 0))

\* the warnings about a column qualified by a subquery or by its alias
SubqueryColumnWarnings(diags) ==
  {i \in WithPrefix(diags, "Unknown column \"") :
     IndexOf(diags[i].message, "\" in CTE \"", 0) >= 0}

\* the subquery of that name has the column, declared or through the
\* wildcards of its body
SubqueryOffers(t, config, name, col) ==
  foundInCTE(t, Filter(parseCTEs(t), LAMBDA cte : cte.name = name),
             getAllTablesForValidation(config), col)

\* C18: with a schema supplied, a column qualified by a subquery or by its alias
\* is reported as unknown only if the subquery neither declares it nor gets it
\* from the wildcard expansion of its body
C18_QualifiedWildcard ==
  (Validated /\ schemaConfig.supplied) =>
    \A i \in SubqueryColumnWarnings(result.value) :
      ~SubqueryOffers(text, schemaConfig, NamedSubquery(result.value[i].message),
                      toUpperCase(FlaggedIdentifier(result.value[i].message)))

\* the warnings about an unqualified column of the main SELECT clause
MainColumnWarnings(diags) ==
  {i \in WithPrefix(diags, "Unknown column \"") :
     IndexOf(diags[i].message, "\". Available columns from CTE \"", 0) >= 0}

\* the text after the last subquery definition
MainQueryOf(t) ==
  LET parsedCTEs == parseCTEs(t)
  IN  Substring(t, Max({0} \cup {parsedCTEs[i].endOffset : i \in DOMAIN parsedCTEs}), Len(t))

\* the names the main query reads in its FROM and JOIN clauses
MainSources(t) ==
  LET refs == ExecAll(Cands(MainQueryOf(t), tableRefRegex), 0)
  IN  {toUpperCase(refs[i].g1) : i \in DOMAIN refs}

\* the schema table of that name has the column
TableOffers(config, name, col) ==
  LET allTables == getAllTablesForValidation(config)
  IN  \E i \in DOMAIN allTables :
         /\ toUpperCase(allTables[i].name) = ShortName(name)
         /\ "columns" \in DOMAIN allTables[i]
         /\ \E j \in DOMAIN allTables[i].columns :
               toUpperCase(allTables[i].columns[j].name) = col

\* C19: an unqualified column of the main SELECT clause is validated the same
\* way as one of a subquery body: it is warned about only when no source of the
\* FROM and JOIN clauses of the main query has it, neither a subquery (declared
\* or wildcard-expanded columns) nor a schema table
C19_MainQueryColumns ==
  (Validated /\ schemaConfig.supplied) =>
    \A i \in MainColumnWarnings(result.value) :
      \A source \in MainSources(text) :
        /\ ~SubqueryOffers(text, schemaConfig, source,
                           toUpperCase(FlaggedIdentifier(result.value[i].message)))
        /\ ~TableOffers(schemaConfig, source,
                        toUpperCase(FlaggedIdentifier(result.value[i].message)))

\* every quote of the text
AllQuotes(t) == {o \in 0..(Len(t) - 1) : Ch(t, o) = "'"}

\* C20: in the unclosed-string scan every single quote toggles the in-string
\* state, two adjacent quotes closing and reopening (or opening and closing):
\* validate reports 'Unclosed string literal' exactly when the text holds an odd
\* number of quotes, so a text whose quotes pair up, such as '' or 'a''b',
\* yields no such error
C20_EveryQuoteToggles ==
  Validated =>
    ((WithMessage(result.value, "Unclosed string literal") # {})
       <=> (Cardinality(AllQuotes(text)) % 2 = 1))

(***************************************************************************)
(* Calls in any order: documents with the cursor in a word, before a word  *)
(* and where a name is expected, with no schema, a flat one and one that   *)
(* names its schemas; validate, completion and hover are called between    *)
(* the edits in every order                                                *)
(***************************************************************************)
CallDocuments ==
  {[before |-> "SELECT E.NA", after |-> "ME FROM EMPLOYEES E"],
   [before |-> "SELECT E", after |-> ".NAME FROM EMPLOYEES E"],
   [before |-> "SELECT ", after |-> "NAME FROM HR.EMPLOYEES"],
   [before |-> "SELECT * FROM HR.EMPLOYEES", after |-> ""],
   [before |-> "SELECT E.NOPE\nFROM EMPLOYEES E WHERE E.", after |-> ""],
   [before |-> "SELECT * FROM ", after |-> ""],
   [before |-> "SELECT 1.5 FROM DEPTS", after |-> ""],
   [before |-> OneSubquery \o "SELECT ", after |-> "EMP_ID FROM A"],
   [before |-> OneSubquery \o "SELECT A.EMP_ID, A.X FROM A", after |-> ""],
   [before |-> "WITH A AS (SELECT ", after |-> "EMP_ID FROM EMPLOYEES) SELECT 1 FROM A"]}

InitCalls == OpenedAt(CallDocuments, {NoSchema, DetailedSchema, QualifiedSchema})
SpecCalls == InitCalls /\ [][Next]_vars

InsideLiteral(t, o) == Cardinality({q \in AllQuotes(t) : q < o}) % 2 = 1

\* the diagnostics of the parenthesis scan
ParenthesisFindings(diags) ==
  WithMessage(diags, "Unexpected closing parenthesis")
    \cup WithMessage(diags, "Unclosed parenthesis")

\* C21: the parenthesis scan ignores every parenthesis inside a single-quoted
\* string literal, also when the literal spans several lines (the in-string
\* state at the start of a line is the one at the end of the line before):
\* no 'Unexpected closing parenthesis' or 'Unclosed parenthesis' error is
\* placed at a parenthesis that stands inside a literal
C21_LiteralParensIgnored ==
  Validated =>
    \A i \in ParenthesisFindings(result.value) :
       ~InsideLiteral(text, OffsetAt(text, result.value[i].startLineNumber,
                                     result.value[i].startColumn))

\* the offsets of an entry are ordered, its body lies strictly between the
\* parentheses and its end is just past the closing one
OrderedOffsets(t, cte) ==
  /\ 0 <= cte.startOffset
  /\ cte.startOffset < cte.bodyStartOffset
  /\ cte.bodyStartOffset <= cte.bodyEndOffset
  /\ cte.bodyEndOffset < cte.endOffset
  /\ cte.endOffset <= Len(t)
  /\ Ch(t, cte.bodyStartOffset - 1) = "("
  /\ Ch(t, cte.bodyEndOffset) = ")"

\* C22: every entry that parseCTEs returns, for complete and for partially
\* typed texts alike, has 0 <= startOffset < bodyStartOffset <= bodyEndOffset
\* < endOffset <= length of the text, with '(' right before bodyStartOffset
\* and ')' at bodyEndOffset
C22_OffsetsOrdered ==
  Parsed => \A i \in DOMAIN result.value : OrderedOffsets(text, result.value[i])

(***************************************************************************)
(* The span an offset lies in: queries whose subqueries and main query     *)
(* bind the same alias to different sources, or bind it in one span only   *)
(***************************************************************************)
ScopeDocuments ==
  {"WITH A AS (SELECT E.EMP_ID FROM EMPLOYEES E), B AS (SELECT E.BOGUS FROM DEPTS) SELECT E.NOPE FROM B",
   "WITH A AS (SELECT D.DEPT_ID FROM DEPTS D), B AS (SELECT D.BOGUS FROM EMPLOYEES D)\nSELECT D.EMP_ID FROM A D",
   "WITH A AS (SELECT E.EMP_ID FROM EMPLOYEES E), B AS (SELECT E.X",
   "WITH A AS (SELECT 1 FROM EMPLOYEES E)E.BOGUS",
   "WITH A AS (SELECT E.EMP_ID, V AS (E.BOGUS) FROM EMPLOYEES E) SELECT 1 FROM A",
   "SELECT E.BOGUS FROM EMPLOYEES E"}

InitScope == Opened(ScopeDocuments, {TwoTableSchema, QualifiedSchema})
SpecScope == InitScope /\ [][Next]_vars

\* the class of offset o: inside the first subquery whose body span holds it,
\* else the main query when it lies past the largest endOffset, else none
ClassOf(o, ctes) ==
  LET holding == {i \in DOMAIN ctes :
                    ctes[i].bodyStartOffset <= o /\ o <= ctes[i].bodyEndOffset}
  IN  IF holding # {} THEN [class |-> "subquery", index |-> Min(holding)]
      ELSE IF ctes # <<>> /\ o > Max({ctes[i].endOffset : i \in DOMAIN ctes})
      THEN [class |-> "main", index |-> 0]
      ELSE [class |-> "none", index |-> 0]

\* the text of the span of a class: the body of the subquery, the text after
\* the last definition, or the whole text
SpanOf(t, c, ctes) ==
  IF c.class = "subquery"
  THEN Substring(t, ctes[c.index].bodyStartOffset, ctes[c.index].bodyEndOffset)
  ELSE IF c.class = "main"
  THEN Substring(t, Max({ctes[i].endOffset : i \in DOMAIN ctes}), Len(t))
  ELSE t

\* the qualified references of the text
QualifiedRefs(t) == ExecAll(Cands(t, columnRefRegex), 0)

\* the qualifier of reference m names no subquery and no table, and no FROM
\* or JOIN of the span binds it
UnboundIn(span, m, ctes, allTables) ==
  /\ \A i \in DOMAIN ctes : ctes[i].name # toUpperCase(m.g1)
  /\ \A i \in DOMAIN allTables :
        /\ toUpperCase(allTables[i].name) # toUpperCase(m.g1)
        /\ FullName(allTables[i]) # toUpperCase(m.g1)
  /\ aliasMatchOf(span, toUpperCase(m.g1)).index < 0

\* a warning about the column of reference m
ColumnWarned(diags, t, m) ==
  \E i \in DOMAIN diags :
     /\ StartsWith(diags[i].message, "Unknown column \"" \o m.g2 \o "\" in ")
     /\ diags[i].startLineNumber = LineOf(t, m.index + Len(m.g1) + 1)
     /\ diags[i].startColumn = ColumnOf(t, m.index + Len(m.g1) + 1)

\* C23: an offset is inside subquery S iff it lies in the body span of S (the
\* first such S), else in the main query iff it exceeds the largest
\* endOffset, else in no structure; validate and completion classify every
\* offset so, the classes excluding each other.  validate resolves the
\* qualifier of a reference inside a subquery body or in the main query
\* against the FROM/JOIN bindings of that span only: a qualifier bound only
\* in another span resolves to nothing and its column gets no warning
C23_ScopedResolution ==
  Validated =>
    LET ctes == parseCTEs(text)
        refs == QualifiedRefs(text)
    IN  /\ \A o \in 0..Len(text) :
             /\ scopeTextOf(text, o, ctes) = SpanOf(text, ClassOf(o, ctes), ctes)
             /\ insideCTEForCompletion(o, ctes)
                  = (IF ClassOf(o, ctes).class = "subquery"
                     THEN <<ctes[ClassOf(o, ctes).index]>> ELSE <<>>)
             /\ inMainQueryAfterCTEs(o, ctes) <=> (ClassOf(o, ctes).class = "main")
             /\ ~(insideCTEForCompletion(o, ctes) # <<>> /\ inMainQueryAfterCTEs(o, ctes))
        /\ \A k \in DOMAIN refs :
             (/\ ClassOf(refs[k].index, ctes).class # "none"
              /\ UnboundIn(SpanOf(text, ClassOf(refs[k].index, ctes), ctes), refs[k],
                           ctes, getAllTablesForValidation(schemaConfig)))
               => ~ColumnWarned(result.value, text, refs[k])

\* a text was validated in which a subquery body and the main query use a
\* qualifier that only another subquery body binds, and a further validated
\* reference is bound in its own span and warned about
C23_Witness ==
  /\ Validated
  /\ \E k \in DOMAIN QualifiedRefs(text) :
        /\ ClassOf(QualifiedRefs(text)[k].index, parseCTEs(text)).class = "subquery"
        /\ UnboundIn(SpanOf(text, ClassOf(QualifiedRefs(text)[k].index, parseCTEs(text)),
                            parseCTEs(text)),
                     QualifiedRefs(text)[k], parseCTEs(text),
                     getAllTablesForValidation(schemaConfig))
        /\ aliasMatchOf(text, toUpperCase(QualifiedRefs(text)[k].g1)).index >= 0
  /\ \E k \in DOMAIN QualifiedRefs(text) :
        /\ ClassOf(QualifiedRefs(text)[k].index, parseCTEs(text)).class = "main"
        /\ aliasMatchOf(text, toUpperCase(QualifiedRefs(text)[k].g1)).index >= 0
        /\ ~ColumnWarned(result.value, text, QualifiedRefs(text)[k])

\* a block comment opens at p, before any other comment or literal, and
\* nothing closes it
UnterminatedBlockAt(t, p) ==
  /\ LitAt(t, p, "/*")
  /\ \A q \in 0..(p - 1) : ~LitAt(t, q, "/*") /\ ~LitAt(t, q, "--") /\ Ch(t, q) # "'"
  /\ \A q \in (p + 2)..(Len(t) - 1) : ~LitAt(t, q, "*/")

\* a line comment opens at p and no newline follows it
UnterminatedLineAt(t, p) ==
  /\ LitAt(t, p, "--")
  /\ \A q \in p..(Len(t) - 1) : Ch(t, q) # "\n"

\* the characters of s from p on are blank, newlines kept as in t
MaskedFrom(t, s, p) ==
  \A q \in p..(Len(t) - 1) : Ch(s, q) = (IF Ch(t, q) = "\n" THEN "\n" ELSE " ")

\* C24: stripCommentsAndStrings masks unterminated constructs: a line
\* comment that no newline follows is replaced by spaces up to the end of
\* its line, and a block comment that no */ closes is replaced by spaces,
\* newlines kept, up to the end of the text
C24_UnterminatedMasked ==
  Sanitized =>
    \A p \in 0..(Len(text) - 1) :
       /\ UnterminatedLineAt(text, p) => MaskedFrom(text, result.value, p)
       /\ UnterminatedBlockAt(text, p) => MaskedFrom(text, result.value, p)

(***************************************************************************)
(* Hovering the name of a subquery: in the main query, before a dot, in    *)
(* the body of another subquery, in the WITH clause, and a name that is    *)
(* also the name of a column                                               *)
(***************************************************************************)
HoverDocuments ==
  {[before |-> OneSubquery \o "SELECT EMP_ID FROM ", after |-> "A"],
   [before |-> OneSubquery \o "SELECT ", after |-> "A.EMP_ID FROM A"],
   [before |-> "WITH A AS (SELECT EMP_ID FROM EMPLOYEES), B AS (SELECT EMP_ID FROM ",
    after |-> "A) SELECT 1 FROM B"],
   [before |-> "WITH ", after |-> "A AS (SELECT EMP_ID FROM EMPLOYEES)\nSELECT 1 FROM A"],
   [before |-> "WITH NAME AS (SELECT EMP_ID FROM EMPLOYEES) SELECT NA",
    after |-> "ME FROM EMPLOYEES"]}

InitHover == OpenedAt(HoverDocuments, {TwoTableSchema, DetailedSchema})
SpecHover == InitHover /\ [][Next]_vars

\* the word under the cursor, as provideHover takes it
HoveredWord ==
  getWordAtPosition(getLineContent(text, cursor),
                    getPositionFromOffset(text, cursor).column)

\* the text of the line of the cursor before the word w
BeforeHovered(w) == Substring(getLineContent(text, cursor), 0, w.startColumn - 1)

\* the declared subqueries that have the name of the word
SubqueriesNamed(w) ==
  Filter(parseCTEs(text), LAMBDA cte : cte.name = toUpperCase(w.word))

\* C25: hovering a word that is the name of a declared subquery and is no
\* column of a qualifier (no qualifier and dot stand before it) gives the
\* description of that subquery with its output columns, whether the word
\* stands bare, anywhere in the text, or is followed by a dot; the name of a
\* subquery is looked for before the word is taken as a column
C25_SubqueryNameHover ==
  (Hovered /\ schemaConfig.supplied) =>
    \A k \in DOMAIN HoveredWord :
       (/\ SubqueriesNamed(HoveredWord[k]) # <<>>
        /\ dotBeforeRegex(BeforeHovered(HoveredWord[k])).index < 0)
         => result.value
              = <<HoverOf(getPositionFromOffset(text, cursor).line, HoveredWord[k],
                          cteMarkdownOf(SubqueriesNamed(HoveredWord[k])[1]))>>

(***************************************************************************)
(* The application: registerDB2SQL is called on the monaco instance, the   *)
(* editor is mounted on a document, keys are typed and the scheduled       *)
(* validation runs                                                         *)
(***************************************************************************)
EditorDocuments ==
  {"SELECT E.NOPE FROM EMPLOYEES E", "SELECT (NAME FROM NOPE", "SELECT 'abc"}

InitEditor == Opened(EditorDocuments, {NoSchema, ExampleSchema})
EditorNext == Type \/ Register \/ EditorDidMount \/ ValidateTimeout
SpecEditor == InitEditor /\ [][EditorNext]_vars

\* how many entries of a list are for the language db2sql
ForDB2SQL(entries) ==
  Cardinality({i \in DOMAIN entries : entries[i].languageId = DB2SQL_LANGUAGE_ID})

\* how often the language, the tokenizer, the language configuration and the
\* completion provider are registered with a monaco instance
RegistrationsOf(m) ==
  <<Cardinality({i \in DOMAIN m.languages : m.languages[i].id = DB2SQL_LANGUAGE_ID}),
    ForDB2SQL(m.tokensProviders), ForDB2SQL(m.languageConfigurations),
    ForDB2SQL(m.completionProviders)>>

\* C26: registerDB2SQL is idempotent on a monaco instance: once it has been
\* called, the language, the tokenizer, the language configuration and the
\* completion provider are each registered exactly once, and a later call,
\* whatever its schema option, registers and replaces nothing
C26_RegisteredOnce ==
  [][/\ calls' > 0 => RegistrationsOf(monaco') = <<1, 1, 1, 1>>
     /\ calls' = 0 => RegistrationsOf(monaco') = <<0, 0, 0, 0>>
     /\ calls > 0 =>
          /\ monaco'.languages = monaco.languages
          /\ monaco'.tokensProviders = monaco.tokensProviders
          /\ monaco'.languageConfigurations = monaco.languageConfigurations
          /\ monaco'.completionProviders = monaco.completionProviders]_vars

\* registerDB2SQL was called twice and the completion provider is the one
\* of a first call that gave a schema
C26_Witness ==
  /\ calls >= 2
  /\ RegistrationsOf(monaco) = <<1, 1, 1, 1>>
  /\ monaco.completionProviders[1].schemaConfig = ExampleSchema

\* the markers that stand for a list of diagnostics: one for each, in the
\* same order, with the same range and message
ExpectedMarkers(diags) ==
  [i \in DOMAIN diags |->
     [diags[i] EXCEPT !.severity =
        CASE @ = "error" -> "Error" [] @ = "warning" -> "Warning"
          [] @ = "info" -> "Info" [] OTHER -> "Hint"]]

\* the step runs the validator: when the editor is mounted and when the
\* timer of the validation fires
ValidatorInvoked ==
  \/ validate = <<>> /\ validate' # <<>>
  \/ validateTimeout /\ ~validateTimeout'

\* C27: the markers of owner db2sql on the model are exactly the diagnostics
\* of validateDB2SQL for the text at the last run of the validator and the
\* schema the validator was created with: every run puts one marker per
\* diagnostic, in the same order, with the same positions and message and
\* the severity mapped, in place of the earlier markers, and nothing else
\* changes the markers
C27_MarkersAreLastDiagnostics ==
  [][IF ValidatorInvoked
     THEN markers' = ExpectedMarkers(validateDB2SQL(text', validate'[1].schemaConfig))
     ELSE markers' = markers]_vars

\* the validator ran at the mount and again after a key was typed, and the
\* model has an Error marker and a Warning marker, those of the present text
C27_Witness ==
  /\ validate # <<>>
  /\ typed > 0
  /\ ~validateTimeout
  /\ \E i \in DOMAIN markers : markers[i].severity = "Error"
  /\ \E i \in DOMAIN markers : markers[i].severity = "Warning"
  /\ Len(markers) = Len(validateDB2SQL(text, schemaConfig))

\* the text with the contents of its comments and string literals blanked:
\* what stands in code is kept, and so are the quote, the newline or the */
\* that ends a literal or a comment, and every newline
RECURSIVE BlankContents(_, _)
BlankContents(t, st) ==
  IF st.pos >= Len(t) THEN ""
  ELSE LET next == LexStep(t, st)
           part == Substring(t, st.pos, next.pos)
       IN  (IF st.mode = "code" \/ next.mode = "code" \/ part = "\n" THEN part ELSE " ")
           \o BlankContents(t, next)

ContentsBlanked(t) == BlankContents(t, [mode |-> "code", pos |-> 0])

\* C28: what stands inside a line comment, a block comment or a string
\* literal never causes a diagnostic: validate returns the same list for the
\* text and for the text with the contents of its comments and string
\* literals replaced by spaces, with and without a schema
C28_ContentsIgnored ==
  Validated => result.value = validateDB2SQL(ContentsBlanked(text), schemaConfig)

(***************************************************************************)
(* Identifiers that begin with a keyword: after a comma, after the dot of  *)
(* a qualified reference and after SELECT, beside the texts where the      *)
(* keyword itself stands there                                             *)
(***************************************************************************)
TokenDocuments ==
  {"SELECT A, FORMAT_X FROM T", "SELECT A, ORDER_ID FROM T",
   "SELECT T.ORDER_ID FROM T", "SELECT T.ORG_ID, T.FROM_DATE FROM T",
   "SELECT FROM_DATE FROM T", "SELECT WHERE_X FROM T",
   "SELECT A, FROM T", "SELECT A, ORDER BY 1", "SELECT T. FROM T",
   "SELECT T.\nFROM T", "SELECT FROM T", "SELECT A FROM T WHERE T.A = 1"}

InitToken == Opened(TokenDocuments, {NoSchema, ExampleSchema})
SpecToken == InitToken /\ [][Next]_vars

\* the words of alts stand at q as a whole token: the character after the
\* last word is not one of an identifier
WholeTokenAt(t, q, alts) ==
  \E k \in DOMAIN alts :
    /\ KwSeqEnd(t, q, alts[k], 1) >= 0
    /\ Ch(t, KwSeqEnd(t, q, alts[k], 1)) \notin IdChars

\* the offset where a finding starts
StartOffset(t, d) == OffsetAt(t, d.startLineNumber, d.startColumn)

\* a comma error stands at a comma that a whole clause keyword, ; or ) follows
CommaBeforeToken(t, d) ==
  LET q == SkipWs(t, StartOffset(t, d) + 1)
  IN  Ch(t, q) \in {";", ")"} \/ WholeTokenAt(t, q, TrailingCommaWordsOnly)

\* an incomplete reference stands at a dot that a newline, a comma, ; or ) or
\* a whole keyword follows
DotBeforeToken(t, d) ==
  LET o == StartOffset(t, d)
      q == SkipWs(t, o + 1)
  IN  \/ \E k \in (o + 1)..(q - 1) : Ch(t, k) = "\n"
      \/ Ch(t, q) \in {",", ";", ")"}
      \/ WholeTokenAt(t, q, IncompleteDotFollowers)

\* the error of a SELECT without columns stands at a SELECT that a whole FROM
\* or WHERE follows
SelectBeforeToken(t, d) ==
  WholeTokenAt(t, SkipWs(t, StartOffset(t, d) + 6), << <<"FROM">>, <<"WHERE">> >>)

\* C29: the keyword-triggered structural checks fire only on whole keyword
\* tokens: a comma followed by an identifier that merely begins with a clause
\* keyword, a complete qualified reference whose column name begins with one,
\* and SELECT followed by an identifier beginning with FROM or WHERE produce
\* no 'Unexpected comma', 'Incomplete reference' or 'SELECT requires at least
\* one column' error.
C29_WholeKeywordTokens ==
  Validated =>
    /\ \A i \in WithPrefix(result.value, "Unexpected comma before ") :
         CommaBeforeToken(text, result.value[i])
    /\ \A i \in WithPrefix(result.value, "Incomplete reference: ") :
         DotBeforeToken(text, result.value[i])
    /\ \A i \in WithMessage(result.value, "SELECT requires at least one column or expression") :
         SelectBeforeToken(text, result.value[i])

\* the diagnostics of a list that have a severity
WithSeverity(diags, severity) == {i \in DOMAIN diags : diags[i].severity = severity}

\* C30: for every text and every schema, the list validate(text, schema)
\* starts with exactly the list validate(text), the structural diagnostics in
\* the same order and all of severity error, and every element after that
\* prefix is a warning; so a schema never adds, removes or reorders a
\* structural finding and all errors precede all warnings.
C30_StructuralPrefix ==
  Validated =>
    LET base == validateDB2SQL(text, NoSchema)
        all == validateDB2SQL(text, schemaConfig)
    IN  /\ result.value = all
        /\ Len(all) >= Len(base)
        /\ \A i \in DOMAIN base : all[i] = base[i]
        /\ WithSeverity(base, "error") = DOMAIN base
        /\ WithSeverity(all, "warning") = DOMAIN all \ DOMAIN base

\* a schema is supplied and the text has structural errors and schema warnings
C30_Witness ==
  /\ Validated
  /\ schemaConfig.supplied
  /\ WithSeverity(result.value, "error") # {}
  /\ WithSeverity(result.value, "warning") # {}
====
